---------------------------- MODULE Spec2Model ----------------------------
(***************************************************************************)
(* A model of the personal finance tracker (src/src/main.rs, src/src/db.rs)*)
(*                                                                         *)
(* Text is modelled as a sequence of one-character strings, so that         *)
(* trimming, splitting, prefixes and SQL LIKE patterns are computed the way *)
(* the code computes them.  64-bit integers of the money codec are modelled *)
(* as signed decimal digit sequences (type Z below), because the codec's    *)
(* arithmetic reaches the limits of i64.                                    *)
(***************************************************************************)
EXTENDS Integers, Sequences, FiniteSets, TLC

VARIABLES
    overflowChecks, \* build mode: TRUE = arithmetic overflow panics, FALSE = wraps
    flow,           \* which codec round trip this behaviour exercises
    amountText,     \* user-entered amount text
    parsed,         \* parse_amount_to_cents(amountText)
    shown,          \* format_money of the parsed amount
    cents,          \* an i64 amount handed to format_money
    centsText,      \* format_money(cents)
    reparsed,       \* parse_amount_to_cents(centsText)
    categories,     \* table categories, in rowid order
    transactions,   \* table transactions, in rowid order
    budgets,        \* table budgets, in rowid order
    files,          \* file names present in data/receipts
    nowMs,          \* the last millisecond timestamp read from the clock
    resp,           \* the last request served and its response
    users,          \* table users, in rowid order
    sessions,       \* table sessions, a set of rows
    issued,         \* how many session tokens have been generated
    pc,             \* per worker: the request it is serving and the step reached
    viewIn,         \* the input handed to the view function under study
    viewOut         \* what the view function returned for viewIn

vars == <<overflowChecks, flow, amountText, parsed, shown, cents, centsText, reparsed,
          categories, transactions, budgets, files, nowMs, resp,
          users, sessions, issued, pc, viewIn, viewOut>>

authVars == <<users, sessions, issued, pc>>

storeVars == <<categories, transactions, budgets, files, nowMs, resp>>

moneyVars == <<overflowChecks, flow, amountText, parsed, shown, cents, centsText, reparsed>>

viewVars == <<viewIn, viewOut>>

-----------------------------------------------------------------------------
(* Bounds *)

MaxLen == 3

\* rows in the database, all tables together, when no request fails
MaxRows == 4

\* rows in the database, all tables together, when requests may fail
MaxFaultRows == 2

\* distinct months a generated ledger or budget table holds
MaxMonths == 26

\* cents of the budget records handed to the budget views are -1..MaxCents
MaxCents == 6

\* row limits handed to the report queries are 0..MaxLimit
MaxLimit == 3

\* session tokens generated
MaxTokens == 6

\* requests served at the same time
MaxWorkers == 2

\* the clock's millisecond readings are 0..MaxMs
MaxMs == 1

-----------------------------------------------------------------------------
(* Text helpers *)

DigitChars == <<"0", "1", "2", "3", "4", "5", "6", "7", "8", "9">>

IsDigitChar(c) == \E i \in 1..10 : DigitChars[i] = c

DigitVal(c) == (CHOOSE i \in 1..10 : DigitChars[i] = c) - 1

DigitChar(d) == DigitChars[d + 1]

IsWhitespace(c) == c \in {" ", "\t", "\n"}

RECURSIVE TrimStart(_)
TrimStart(s) ==
    IF s # <<>> /\ IsWhitespace(Head(s)) THEN TrimStart(Tail(s)) ELSE s

RECURSIVE TrimEnd(_)
TrimEnd(s) ==
    IF s # <<>> /\ IsWhitespace(s[Len(s)])
    THEN TrimEnd(SubSeq(s, 1, Len(s) - 1))
    ELSE s

\* str::trim
Trim(s) == TrimEnd(TrimStart(s))

\* str::replace(from, to) for single characters
ReplaceChar(s, from, to) == [i \in 1..Len(s) |-> IF s[i] = from THEN to ELSE s[i]]

\* str::split(sep): the pieces between occurrences of sep; never empty
RECURSIVE SplitAcc(_, _, _)
SplitAcc(s, sep, cur) ==
    IF s = <<>> THEN <<cur>>
    ELSE IF Head(s) = sep THEN <<cur>> \o SplitAcc(Tail(s), sep, <<>>)
    ELSE SplitAcc(Tail(s), sep, Append(cur, Head(s)))

Split(s, sep) == SplitAcc(s, sep, <<>>)

\* every string over alphabet A of length at most n
StringsUpTo(A, n) == UNION {[1..k -> A] : k \in 0..n}

-----------------------------------------------------------------------------
(* Signed decimal integers: [neg |-> BOOLEAN, mag |-> digits, most          *)
(* significant first, no leading zero; zero is <<0>> and never negative]    *)

RECURSIVE StripZeros(_)
StripZeros(d) ==
    IF Len(d) > 1 /\ Head(d) = 0 THEN StripZeros(Tail(d)) ELSE d

RECURSIVE ZeroPad(_, _)
ZeroPad(d, n) == IF Len(d) < n THEN ZeroPad(<<0>> \o d, n) ELSE d

MkZ(neg, mag) ==
    LET m == StripZeros(IF mag = <<>> THEN <<0>> ELSE mag)
    IN  [neg |-> neg /\ m # <<0>>, mag |-> m]

RECURSIVE LexLess(_, _)
LexLess(a, b) ==
    /\ a # <<>>
    /\ \/ Head(a) < Head(b)
       \/ Head(a) = Head(b) /\ LexLess(Tail(a), Tail(b))

\* a < b on magnitudes without leading zeros
MagLess(a, b) == Len(a) < Len(b) \/ (Len(a) = Len(b) /\ LexLess(a, b))

RECURSIVE AddDigits(_, _, _, _)
AddDigits(a, b, i, carry) ==
    IF i = 0 THEN (IF carry = 0 THEN <<>> ELSE <<carry>>)
    ELSE LET t == a[i] + b[i] + carry
         IN  IF t < 10 THEN Append(AddDigits(a, b, i - 1, 0), t)
             ELSE Append(AddDigits(a, b, i - 1, 1), t - 10)

MagAdd(a, b) ==
    LET n == IF Len(a) > Len(b) THEN Len(a) ELSE Len(b)
    IN  StripZeros(AddDigits(ZeroPad(a, n), ZeroPad(b, n), n, 0))

RECURSIVE SubDigits(_, _, _, _)
SubDigits(a, b, i, borrow) ==
    IF i = 0 THEN <<>>
    ELSE LET t == a[i] - b[i] - borrow
         IN  IF t < 0 THEN Append(SubDigits(a, b, i - 1, 1), t + 10)
                      ELSE Append(SubDigits(a, b, i - 1, 0), t)

\* a - b on magnitudes, for a >= b
MagSub(a, b) ==
    LET n == Len(a)
    IN  StripZeros(SubDigits(a, ZeroPad(b, n), n, 0))

ZZero == [neg |-> FALSE, mag |-> <<0>>]

ZNeg(x) == MkZ(~x.neg, x.mag)

ZAdd(x, y) ==
    IF x.neg = y.neg THEN MkZ(x.neg, MagAdd(x.mag, y.mag))
    ELSE IF MagLess(x.mag, y.mag) THEN MkZ(y.neg, MagSub(y.mag, x.mag))
    ELSE MkZ(x.neg, MagSub(x.mag, y.mag))

ZSub(x, y) == ZAdd(x, ZNeg(y))

ZLess(x, y) ==
    IF x.neg # y.neg THEN x.neg
    ELSE IF x.neg THEN MagLess(y.mag, x.mag)
    ELSE MagLess(x.mag, y.mag)

ZLeq(x, y) == x = y \/ ZLess(x, y)

\* x * 100
ZMul100(x) == MkZ(x.neg, x.mag \o <<0, 0>>)

\* truncating division and remainder by 100, as Rust's / and % on i64
ZDiv100(x) ==
    IF Len(x.mag) <= 2 THEN ZZero
    ELSE MkZ(x.neg, SubSeq(x.mag, 1, Len(x.mag) - 2))

ZRem100(x) ==
    IF Len(x.mag) <= 2 THEN x
    ELSE MkZ(x.neg, SubSeq(x.mag, Len(x.mag) - 1, Len(x.mag)))

RECURSIVE NatDigits(_)
NatDigits(n) == IF n < 10 THEN <<n>> ELSE Append(NatDigits(n \div 10), n % 10)

\* a small integer of the model as a Z
ZOf(n) == IF n < 0 THEN MkZ(TRUE, NatDigits(-n)) ELSE MkZ(FALSE, NatDigits(n))

RECURSIVE MagInt(_, _)
MagInt(d, acc) == IF d = <<>> THEN acc ELSE MagInt(Tail(d), acc * 10 + Head(d))

\* the integer a small Z stands for
ZInt(x) == IF x.neg THEN -MagInt(x.mag, 0) ELSE MagInt(x.mag, 0)

\* i64::MAX = 9223372036854775807, i64::MIN = -9223372036854775808
I64Max == [neg |-> FALSE,
           mag |-> <<9,2,2,3,3,7,2,0,3,6,8,5,4,7,7,5,8,0,7>>]

I64Min == [neg |-> TRUE,
           mag |-> <<9,2,2,3,3,7,2,0,3,6,8,5,4,7,7,5,8,0,8>>]

\* 2^64 = 18446744073709551616
Two64 == [neg |-> FALSE,
          mag |-> <<1,8,4,4,6,7,4,4,0,7,3,7,0,9,5,5,1,6,1,6>>]

InI64(x) == ZLeq(I64Min, x) /\ ZLeq(x, I64Max)

\* two's-complement wrap-around of a mathematical result into i64
RECURSIVE WrapI64(_)
WrapI64(x) ==
    IF ZLess(I64Max, x) THEN WrapI64(ZSub(x, Two64))
    ELSE IF ZLess(x, I64Min) THEN WrapI64(ZAdd(x, Two64))
    ELSE x

-----------------------------------------------------------------------------
(* Double precision arithmetic of the percentage.  A finite f64 is given by *)
(* its sign, its significand sig, a natural below 2^53, and its exponent    *)
(* exp: the value is sig * 2^exp.                                           *)

\* digits of a * c for a factor 0 <= c <= 2^27
RECURSIVE MulDigits(_, _, _, _)
MulDigits(a, c, i, carry) ==
    IF i = 0 THEN NatDigits(carry)
    ELSE LET t == a[i] * c + carry
         IN  IF t < 10 THEN Append(MulDigits(a, c, i - 1, 0), t)
             ELSE Append(MulDigits(a, c, i - 1, t \div 10), t % 10)

ZMulSmall(x, c) == MkZ(x.neg, MulDigits(x.mag, c, Len(x.mag), 0))

\* x * 2^k
RECURSIVE ZShl(_, _)
ZShl(x, k) ==
    IF k = 0 THEN x
    ELSE IF k > 27 THEN ZShl(ZMulSmall(x, 2^27), k - 27)
    ELSE ZMulSmall(x, 2^k)

\* digits of a \div c and the remainder, for a divisor 0 < c <= 2^27
RECURSIVE DivDigits(_, _, _)
DivDigits(a, c, k) ==
    IF k = 0 THEN [q |-> <<>>, r |-> 0]
    ELSE LET h == DivDigits(a, c, k - 1)
             t == h.r * 10 + a[k]
         IN  [q |-> Append(h.q, t \div c), r |-> t % c]

ZDivSmall(x, c) == MkZ(x.neg, DivDigits(x.mag, c, Len(x.mag)).q)

\* the number of bits of a natural: 0 for 0, k for 2^(k-1) <= x < 2^k
RECURSIVE BitLen(_)
BitLen(x) ==
    IF Len(x.mag) <= 8 THEN Cardinality({k \in 0..27 : 2^k <= ZInt(x)})
    ELSE 27 + BitLen(ZDivSmall(x, 2^27))

\* long division of naturals over the first k digits of n:
\* n = q * d + r with 0 <= r < d
RECURSIVE LongDiv(_, _, _)
LongDiv(n, d, k) ==
    IF k < Len(d.mag) THEN [q |-> ZZero, r |-> MkZ(FALSE, SubSeq(n, 1, k))]
    ELSE LET h     == LongDiv(n, d, k - 1)
             rem   == MkZ(FALSE, h.r.mag \o <<n[k]>>)
             digit == Cardinality({c \in 1..9 : ZLeq(ZMulSmall(d, c), rem)})
         IN  IF h.r = ZZero /\ n[k] = 0 THEN [q |-> ZMulSmall(h.q, 10), r |-> ZZero]
             ELSE [q |-> MkZ(FALSE, h.q.mag \o <<digit>>),
                   r |-> ZSub(rem, ZMulSmall(d, digit))]

ZDivMod(n, d) == LongDiv(n.mag, d, Len(n.mag))

ZOdd(x) == x.mag[Len(x.mag)] % 2 = 1

F64(neg, sig, exp) == [neg |-> neg, sig |-> sig, exp |-> exp]

\* the f64 nearest to (num / den) * 2^exp, ties to the even significand: the
\* fraction is scaled by the power of two 2^s that brings its quotient to
\* the 53 bits of a significand, and the quotient is rounded to an integer
F64Nearest(neg, num, den, exp) ==
    IF num = ZZero THEN F64(neg, ZZero, 0)
    ELSE LET s0     == 52 - (BitLen(num) - BitLen(den))
             n(k)   == IF k >= 0 THEN ZShl(num, k) ELSE num
             d(k)   == IF k >= 0 THEN den ELSE ZShl(den, -k)
             s      == IF ZLess(n(s0), ZShl(d(s0), 52)) THEN s0 + 1 ELSE s0
             h      == ZDivMod(n(s), d(s))
             twice  == ZAdd(h.r, h.r)
             sig    == IF ZLess(d(s), twice) \/ (twice = d(s) /\ ZOdd(h.q))
                       THEN ZAdd(h.q, ZOf(1)) ELSE h.q
         IN  F64(neg, sig, exp - s)

\* i64 as f64
F64OfI64(x) == F64Nearest(x.neg, MkZ(FALSE, x.mag), ZOf(1), 0)

\* f64 / f64 for a divisor other than zero
F64Div(x, y) == F64Nearest(x.neg # y.neg, x.sig, y.sig, x.exp - y.exp)

\* f64 * 100.0
F64Times100(x) == F64Nearest(x.neg, ZMul100(x.sig), ZOf(1), x.exp)

\* f64::round as i64: the nearest integer, halves away from zero, and an
\* integer outside i64 replaced by the nearest limit of i64
F64RoundAsI64(x) ==
    LET half == ZShl(ZOf(1), -x.exp - 1)
        mag  == IF x.exp >= 0 THEN ZShl(x.sig, x.exp)
                ELSE IF x.exp < -54 THEN ZZero
                ELSE ZDivMod(ZAdd(x.sig, half), ZAdd(half, half)).q
        v    == MkZ(x.neg, mag.mag)
    IN  IF ZLess(I64Max, v) THEN I64Max ELSE IF ZLess(v, I64Min) THEN I64Min ELSE v

\* ((spent_cents as f64 / amount_cents as f64) * 100.0).round() as i64, or 0
percent(spent_cents, amount_cents) ==
    IF amount_cents = ZZero THEN ZZero
    ELSE F64RoundAsI64(F64Times100(F64Div(F64OfI64(spent_cents), F64OfI64(amount_cents))))

-----------------------------------------------------------------------------
(* Money codec: src/src/main.rs                                            *)

\* The Cyrillic letters of the receipt category label (U+0416 U+041A U+0425
\* and their lower-case forms U+0436 U+043A U+0445), one token per letter
Cyrillic == {"ZHE", "KA", "HA", "zhe", "ka", "ha"}

\* str::len counts UTF-8 bytes
RECURSIVE ByteLen(_)
ByteLen(s) ==
    IF s = <<>> THEN 0
    ELSE (IF Head(s) \in Cyrillic THEN 2 ELSE 1) + ByteLen(Tail(s))

AllDigitChars(s) == \A i \in 1..Len(s) : IsDigitChar(s[i])

DigitsOf(s) == [i \in 1..Len(s) |-> DigitVal(s[i])]

\* str::parse::<i64>: an optional single sign, then one or more ASCII
\* digits; a value outside i64 is an error
ParseI64(s) ==
    LET signed == s # <<>> /\ Head(s) \in {"+", "-"}
        body   == IF signed THEN Tail(s) ELSE s
        val    == MkZ(signed /\ Head(s) = "-", DigitsOf(body))
    IN  IF body = <<>> \/ ~AllDigitChars(body) THEN [ok |-> FALSE, val |-> ZZero]
        ELSE IF ~InI64(val) THEN [ok |-> FALSE, val |-> ZZero]
        ELSE [ok |-> TRUE, val |-> val]

\* an i64 operation whose mathematical result is x: in range it is x; out
\* of range it panics when overflow checks are compiled in, and wraps
\* otherwise
Checked(x, checks) ==
    IF InI64(x) THEN [panic |-> FALSE, val |-> x]
    ELSE IF checks THEN [panic |-> TRUE, val |-> ZZero]
    ELSE [panic |-> FALSE, val |-> WrapI64(x)]

RECURSIVE PadRight(_, _, _)
PadRight(s, c, n) == IF ByteLen(s) < n THEN PadRight(Append(s, c), c, n) ELSE s

NoAmount == [tag |-> "none", val |-> ZZero]

PanicAmount == [tag |-> "panic", val |-> ZZero]

SomeAmount(v) == [tag |-> "some", val |-> v]

\* whole * 100 + frac on i64
CentsOf(whole, frac, checks) ==
    LET mul == Checked(ZMul100(whole), checks)
        sum == Checked(ZAdd(mul.val, frac), checks)
    IN  IF mul.panic \/ sum.panic THEN PanicAmount ELSE SomeAmount(sum.val)

parse_amount_to_cents(input, checks) ==
    LET t     == Trim(input)
        s     == ReplaceChar(t, ",", ".")
        parts == Split(s, ".")
        whole == ParseI64(parts[1])
        frac  == IF Len(parts) < 2 THEN [ok |-> TRUE, val |-> ZZero]
                 ELSE IF ByteLen(parts[2]) > 2 THEN [ok |-> FALSE, val |-> ZZero]
                 ELSE ParseI64(PadRight(parts[2], "0", 2))
    IN  IF t = <<>> THEN NoAmount
        ELSE IF Head(t) = "-" THEN NoAmount
        ELSE IF Len(parts) > 2 THEN NoAmount
        ELSE IF ~whole.ok THEN NoAmount
        ELSE IF ~frac.ok THEN NoAmount
        ELSE CentsOf(whole.val, frac.val, checks)

\* Display of an i64
ShowZ(x) ==
    (IF x.neg THEN <<"-">> ELSE <<>>) \o [i \in 1..Len(x.mag) |-> DigitChar(x.mag[i])]

\* "{:02}" of an i64: the sign first, then zeros up to width 2
ShowZ02(x) ==
    IF x.neg \/ Len(x.mag) >= 2 THEN ShowZ(x) ELSE <<"0">> \o ShowZ(x)

\* i64::abs: the absolute value of i64::MIN is out of range
AbsI64(x, checks) == Checked(MkZ(FALSE, x.mag), checks)

format_money(c, checks) ==
    LET sign  == IF c.neg THEN <<"-">> ELSE <<>>
        abs   == AbsI64(c, checks)
        whole == ZDiv100(abs.val)
        frac  == ZRem100(abs.val)
    IN  IF abs.panic THEN [tag |-> "panic", text |-> <<>>]
        ELSE [tag |-> "text", text |-> sign \o ShowZ(whole) \o <<".">> \o ShowZ02(frac)]

-----------------------------------------------------------------------------
(* The codec exercised on bounded inputs: text -> cents -> text, and        *)
(* cents -> text -> cents                                                   *)

AmountAlphabet == {"0", "1", "5", ".", ",", "-", "+", " ", "a"}

\* texts named by the documentation, and texts at the limits of i64
AmountExamples ==
    { <<"-", "5">>, <<"1", ".", "2", ".", "3">>, <<"1", ".", "2", "3", "4">>,
      <<"a", "b", "c">>, <<"1", "2", ".", "5">>, <<" ", "1", "2", ",", "5", "0", " ">>,
      <<"1", "0", "0">>, <<"0", ".", "-", "5">>,
      <<"9","2","2","3","3","7","2","0","3","6","8","5","4","7","7","5","8",".","0","7">>,
      <<"9","2","2","3","3","7","2","0","3","6","8","5","4","7","7","5","8",".","0","8">>,
      <<"9","2","2","3","3","7","2","0","3","6","8","5","4","7","7","5","9">>,
      <<"9","2","2","3","3","7","2","0","3","6","8","5","4","7","7","5","8","0","7">> }

AmountTexts == StringsUpTo(AmountAlphabet, MaxLen) \cup AmountExamples

CentsValues ==
    {ZOf(n) : n \in {-15000, -150, -101, -100, -99, -10, -1, 0, 1, 9, 10, 99, 100,
                      101, 150, 1250, 10000}}
    \cup {I64Max, I64Min, ZAdd(I64Min, ZOf(1)), ZSub(I64Max, ZOf(1))}

Unset == [tag |-> "unset"]

ViewIdle == viewIn = Unset /\ viewOut = Unset

InitMoney ==
    /\ overflowChecks \in BOOLEAN
    /\ flow \in {"text", "cents"}
    /\ amountText \in (IF flow = "text" THEN AmountTexts ELSE {<<>>})
    /\ cents \in (IF flow = "cents" THEN CentsValues ELSE {ZZero})
    /\ parsed = Unset
    /\ shown = Unset
    /\ centsText = Unset
    /\ reparsed = Unset
    /\ categories = <<>>
    /\ transactions = <<>>
    /\ budgets = <<>>
    /\ files = {}
    /\ nowMs = 0
    /\ resp = [req |-> "none", status |-> "none", hadFile |-> FALSE, kind |-> "",
               category_id |-> [some |-> FALSE], failed |-> "none", page |-> <<>>]
    /\ users = <<>>
    /\ sessions = {}
    /\ issued = 0
    /\ pc = [w \in 1..MaxWorkers |-> [at |-> "idle"]]
    /\ ViewIdle

ParseText ==
    /\ flow = "text"
    /\ parsed = Unset
    /\ parsed' = parse_amount_to_cents(amountText, overflowChecks)
    /\ UNCHANGED <<overflowChecks, flow, amountText, shown, cents, centsText, reparsed>>
    /\ UNCHANGED <<storeVars, authVars, viewVars>>

FormatParsed ==
    /\ parsed.tag = "some"
    /\ shown = Unset
    /\ shown' = format_money(parsed.val, overflowChecks)
    /\ UNCHANGED <<overflowChecks, flow, amountText, parsed, cents, centsText, reparsed>>
    /\ UNCHANGED <<storeVars, authVars, viewVars>>

FormatCents ==
    /\ flow = "cents"
    /\ centsText = Unset
    /\ centsText' = format_money(cents, overflowChecks)
    /\ UNCHANGED <<overflowChecks, flow, amountText, parsed, shown, cents, reparsed>>
    /\ UNCHANGED <<storeVars, authVars, viewVars>>

ReparseText ==
    /\ centsText.tag = "text"
    /\ reparsed = Unset
    /\ reparsed' = parse_amount_to_cents(centsText.text, overflowChecks)
    /\ UNCHANGED <<overflowChecks, flow, amountText, parsed, shown, cents, centsText>>
    /\ UNCHANGED <<storeVars, authVars, viewVars>>

NextMoney == ParseText \/ FormatParsed \/ FormatCents \/ ReparseText

SpecMoney == InitMoney /\ [][NextMoney]_vars

-----------------------------------------------------------------------------
(* Properties of the money codec                                            *)

Separators(t) == {i \in 1..Len(t) : t[i] \in {",", "."}}

WholePart(t) ==
    IF Separators(t) = {} THEN t
    ELSE SubSeq(t, 1, (CHOOSE i \in Separators(t) : \A j \in Separators(t) : i <= j) - 1)

FracPart(t) ==
    IF Separators(t) = {} THEN <<>>
    ELSE SubSeq(t, (CHOOSE i \in Separators(t) : \A j \in Separators(t) : i <= j) + 1,
                Len(t))

\* the amount texts that must be refused
Malformed(text) ==
    LET t == Trim(text)
    IN  \/ t = <<>>
        \/ Head(t) = "-"
        \/ Cardinality(Separators(t)) > 1
        \/ Len(FracPart(t)) > 2
        \/ WholePart(t) = <<>>
        \/ \E i \in 1..Len(WholePart(t)) : ~IsDigitChar(WholePart(t)[i])
        \/ \E i \in 1..Len(FracPart(t)) : ~IsDigitChar(FracPart(t)[i])

\* C2: parse_amount_to_cents returns no amount for every text that, after
\* trimming, is empty, starts with a minus sign, has more than one
\* separator, has more than two fractional digits, or whose whole or
\* fractional part is not made of digits only.
C2_RejectsMalformed ==
    (flow = "text" /\ parsed # Unset /\ Malformed(amountText)) => parsed.tag = "none"

\* an unsigned decimal: digits without a leading zero, then optionally one
\* separator and at most two digits
WellFormed(t) ==
    /\ Cardinality(Separators(t)) <= 1
    /\ WholePart(t) # <<>>
    /\ \A i \in 1..Len(WholePart(t)) : IsDigitChar(WholePart(t)[i])
    /\ Len(WholePart(t)) > 1 => Head(WholePart(t)) # "0"
    /\ Len(FracPart(t)) <= 2
    /\ \A i \in 1..Len(FracPart(t)) : IsDigitChar(FracPart(t)[i])

\* the text with a dot for its separator and two fractional digits
TwoPlaces(t) ==
    WholePart(t) \o <<".">> \o
        [i \in 1..2 |-> IF i <= Len(FracPart(t)) THEN FracPart(t)[i] ELSE "0"]

\* C6: for every well-formed unsigned decimal text, parse_amount_to_cents
\* succeeds and format_money of the result is the text with a dot and two
\* fractional digits; and for every cents >= 0,
\* parse_amount_to_cents(format_money(cents)) = cents.
C6_RoundTrip ==
    /\ (flow = "text" /\ WellFormed(amountText) /\ parsed # Unset) => parsed.tag = "some"
    /\ (flow = "text" /\ WellFormed(amountText) /\ shown # Unset) =>
            shown = [tag |-> "text", text |-> TwoPlaces(amountText)]
    /\ (flow = "cents" /\ ~cents.neg /\ centsText # Unset) => centsText.tag = "text"
    /\ (flow = "cents" /\ ~cents.neg /\ reparsed # Unset) => reparsed = SomeAmount(cents)

-----------------------------------------------------------------------------
(* SQL text semantics used by src/src/db.rs                                 *)

None == [some |-> FALSE]

Some(x) == [some |-> TRUE, val |-> x]

\* code points; SQLite compares TEXT bytewise (BINARY collation), which for
\* UTF-8 is code point order
CharCode(c) ==
    CASE c = " " -> 32 [] c = "%" -> 37 [] c = "+" -> 43 [] c = "," -> 44
      [] c = "-" -> 45 [] c = "." -> 46
      [] IsDigitChar(c) -> 48 + DigitVal(c)
      [] c = "F" -> 70 [] c = "_" -> 95 [] c = "a" -> 97 [] c = "d" -> 100
      [] c = "e" -> 101 [] c = "f" -> 102 [] c = "g" -> 103 [] c = "n" -> 110
      [] c = "o" -> 111 [] c = "p" -> 112 [] c = "x" -> 120
      [] c = "ZHE" -> 1046 [] c = "KA" -> 1050 [] c = "HA" -> 1061
      [] c = "zhe" -> 1078 [] c = "ka" -> 1082 [] c = "ha" -> 1093

RECURSIVE TextLess(_, _)
TextLess(a, b) ==
    IF b = <<>> THEN FALSE
    ELSE IF a = <<>> THEN TRUE
    ELSE IF Head(a) = Head(b) THEN TextLess(Tail(a), Tail(b))
    ELSE CharCode(Head(a)) < CharCode(Head(b))

\* char::to_lowercase / SQLite's ASCII case folding
LowerChar(c) ==
    CASE c = "F" -> "f" [] c = "G" -> "g" [] c = "N" -> "n" [] c = "P" -> "p"
      [] c = "ZHE" -> "zhe" [] c = "KA" -> "ka" [] c = "HA" -> "ha"
      [] OTHER -> c

ToLower(s) == [i \in 1..Len(s) |-> LowerChar(s[i])]

\* LIKE folds case for ASCII letters only
AsciiFold(c) == IF c = "F" THEN "f" ELSE c

\* text LIKE pattern: % matches any run of characters, _ any one character
RECURSIVE Like(_, _)
Like(text, pat) ==
    IF pat = <<>> THEN text = <<>>
    ELSE IF Head(pat) = "%"
         THEN \E k \in 0..Len(text) : Like(SubSeq(text, k + 1, Len(text)), Tail(pat))
    ELSE IF text = <<>> THEN FALSE
    ELSE /\ (Head(pat) = "_" \/ AsciiFold(Head(pat)) = AsciiFold(Head(text)))
         /\ Like(Tail(text), Tail(pat))

\* format!("{}-%", month)
LikeMonth(month) == month \o <<"-", "%">>

\* substr(text, 1, 7)
Substr7(text) == SubSeq(text, 1, IF Len(text) < 7 THEN Len(text) ELSE 7)

\* the members of a finite set of texts, greatest first (ORDER BY ... DESC)
RECURSIVE TextsDesc(_)
TextsDesc(S) ==
    IF S = {} THEN <<>>
    ELSE LET top == CHOOSE x \in S : \A y \in S : y = x \/ TextLess(y, x)
         IN  <<top>> \o TextsDesc(S \ {top})

\* LIMIT n: a negative limit means no limit
Limit(rows, n) ==
    IF n < 0 \/ n >= Len(rows) THEN rows ELSE SubSeq(rows, 1, n)

\* SUM over a column of integers that are all NOT NULL
RECURSIVE SumSeq(_)
SumSeq(xs) == IF xs = <<>> THEN 0 ELSE Head(xs) + SumSeq(Tail(xs))

Rows(table) == {table[i] : i \in 1..Len(table)}

-----------------------------------------------------------------------------
(* Queries: src/src/db.rs                                                   *)

Amounts(rows) == [i \in 1..Len(rows) |-> rows[i].amount_cents]

\* SELECT name FROM categories WHERE id = ?1
category_name_by_id(cats, id) ==
    IF \E i \in 1..Len(cats) : cats[i].id = id
    THEN Some((CHOOSE c \in Rows(cats) : c.id = id).name)
    ELSE None

\* expense transactions joined to a budget's category for the month pattern
SpentRows(txs, category_id, month) ==
    LET hit(t) == /\ t.category_id = Some(category_id)
                  /\ t.kind = "expense"
                  /\ Like(t.occurred_on, LikeMonth(month))
    IN  SelectSeq(txs, hit)

month_totals(txs, month) ==
    LET inc(t) == t.kind = "income" /\ Like(t.occurred_on, LikeMonth(month))
        exp(t) == t.kind = "expense" /\ Like(t.occurred_on, LikeMonth(month))
    IN  <<SumSeq(Amounts(SelectSeq(txs, inc))), SumSeq(Amounts(SelectSeq(txs, exp)))>>

\* rows ordered by category name; rows with equal names come in rowid order
RECURSIVE ByNameThenId(_)
ByNameThenId(S) ==
    IF S = {} THEN <<>>
    ELSE LET first == CHOOSE x \in S : \A y \in S :
                          \/ y = x
                          \/ TextLess(x.category_name, y.category_name)
                          \/ (x.category_name = y.category_name /\ x.id < y.id)
         IN  <<first>> \o ByNameThenId(S \ {first})

list_budgets(cats, txs, buds, month) ==
    LET joined == {b \in Rows(buds) :
                      b.month = month /\ category_name_by_id(cats, b.category_id).some}
        row(b) == [id            |-> b.id,
                   category_id   |-> b.category_id,
                   category_name |-> category_name_by_id(cats, b.category_id).val,
                   month         |-> b.month,
                   amount_cents  |-> b.amount_cents,
                   spent_cents   |-> SumSeq(Amounts(SpentRows(txs, b.category_id, month)))]
    IN  ByNameThenId({row(b) : b \in joined})

\* groups ordered by category name; groups with equal names by budget amount
RECURSIVE ByNameThenBudget(_)
ByNameThenBudget(S) ==
    IF S = {} THEN <<>>
    ELSE LET first == CHOOSE x \in S : \A y \in S :
                          \/ y = x
                          \/ TextLess(x.category_name, y.category_name)
                          \/ (x.category_name = y.category_name
                                /\ x.budget_cents < y.budget_cents)
         IN  <<first>> \o ByNameThenBudget(S \ {first})

dashboard_budgets(cats, txs, buds, month) ==
    LET joined   == SelectSeq(buds, LAMBDA b :
                       b.month = month /\ category_name_by_id(cats, b.category_id).some)
        name(b)  == category_name_by_id(cats, b.category_id).val
        groups   == {<<name(b), b.amount_cents>> : b \in Rows(joined)}
        spent(g) == SumSeq([i \in 1..Len(joined) |->
                       IF <<name(joined[i]), joined[i].amount_cents>> = g
                       THEN SumSeq(Amounts(SpentRows(txs, joined[i].category_id, month)))
                       ELSE 0])
        row(g)   == [category_name   |-> g[1],
                     budget_cents    |-> g[2],
                     spent_cents     |-> spent(g),
                     remaining_cents |-> g[2] - spent(g)]
    IN  ByNameThenBudget({row(g) : g \in groups})

\* report_months with the months in ascending order
report_months_ascending(txs, limit) ==
    LET desc   == TextsDesc({Substr7(t.occurred_on) : t \in Rows(txs)})
        months == Limit([i \in 1..Len(desc) |-> desc[Len(desc) + 1 - i]], limit)
        sum(m, kind) == SumSeq(Amounts(SelectSeq(txs, LAMBDA t :
                            Substr7(t.occurred_on) = m /\ t.kind = kind)))
    IN  [i \in 1..Len(months) |->
            [month         |-> months[i],
             income_cents  |-> sum(months[i], "income"),
             expense_cents |-> sum(months[i], "expense"),
             net_cents     |-> sum(months[i], "income") - sum(months[i], "expense")]]

report_months(txs, limit) ==
    LET months == Limit(TextsDesc({Substr7(t.occurred_on) : t \in Rows(txs)}), limit)
        sum(m, kind) == SumSeq(Amounts(SelectSeq(txs, LAMBDA t :
                            Substr7(t.occurred_on) = m /\ t.kind = kind)))
    IN  [i \in 1..Len(months) |->
            [month         |-> months[i],
             income_cents  |-> sum(months[i], "income"),
             expense_cents |-> sum(months[i], "expense"),
             net_cents     |-> sum(months[i], "income") - sum(months[i], "expense")]]

\* rows ordered by expense, greatest first; equal expenses by name
RECURSIVE ByExpenseDesc(_)
ByExpenseDesc(S) ==
    IF S = {} THEN <<>>
    ELSE LET first == CHOOSE x \in S : \A y \in S :
                          \/ y = x
                          \/ x.expense_cents > y.expense_cents
                          \/ (x.expense_cents = y.expense_cents
                                /\ TextLess(x.category_name, y.category_name))
         IN  <<first>> \o ByExpenseDesc(S \ {first})

report_categories(cats, txs, month) ==
    LET hit(t)  == /\ t.category_id.some
                   /\ category_name_by_id(cats, t.category_id.val).some
                   /\ t.kind = "expense"
                   /\ Like(t.occurred_on, LikeMonth(month))
        joined  == SelectSeq(txs, hit)
        name(t) == category_name_by_id(cats, t.category_id.val).val
        names   == {name(t) : t \in Rows(joined)}
        row(n)  == [category_name |-> n,
                    expense_cents |-> SumSeq(Amounts(SelectSeq(joined,
                                         LAMBDA t : name(t) = n)))]
    IN  ByExpenseDesc({row(n) : n \in names})

list_months(txs, limit) ==
    Limit(TextsDesc({Substr7(t.occurred_on) : t \in Rows(txs)}), limit)

list_budget_months(buds, limit) ==
    Limit(TextsDesc({b.month : b \in Rows(buds)}), limit)

\* ORDER BY occurred_on DESC, id DESC
RECURSIVE ByDateDescThenIdDesc(_)
ByDateDescThenIdDesc(S) ==
    IF S = {} THEN <<>>
    ELSE LET first == CHOOSE x \in S : \A y \in S :
                          \/ y = x
                          \/ TextLess(y.occurred_on, x.occurred_on)
                          \/ (x.occurred_on = y.occurred_on /\ x.id > y.id)
         IN  <<first>> \o ByDateDescThenIdDesc(S \ {first})

list_transactions(cats, txs, month) ==
    LET hit(t) == month.some => Like(t.occurred_on, LikeMonth(month.val))
        row(t) == [id            |-> t.id,
                   kind          |-> t.kind,
                   amount_cents  |-> t.amount_cents,
                   occurred_on   |-> t.occurred_on,
                   note          |-> t.note,
                   category_name |-> IF t.category_id.some
                                     THEN category_name_by_id(cats, t.category_id.val)
                                     ELSE None,
                   receipt_path  |-> t.receipt_path]
    IN  Limit(ByDateDescThenIdDesc({row(t) : t \in {u \in Rows(txs) : hit(u)}}), 200)

\* ORDER BY kind, name; rows equal in both come in rowid order
RECURSIVE ByKindThenName(_)
ByKindThenName(S) ==
    IF S = {} THEN <<>>
    ELSE LET first == CHOOSE x \in S : \A y \in S :
                          \/ y = x
                          \/ (x.kind = "expense" /\ y.kind = "income")
                          \/ (x.kind = y.kind /\ TextLess(x.name, y.name))
                          \/ (x.kind = y.kind /\ x.name = y.name /\ x.id < y.id)
         IN  <<first>> \o ByKindThenName(S \ {first})

list_categories(cats) == ByKindThenName(Rows(cats))

-----------------------------------------------------------------------------
(* Receipt gate and receipt files: src/src/main.rs                          *)

ReceiptLabel == <<"zhe", "ka", "ha">>

is_receipt_category(name) == ToLower(Trim(name)) = ReceiptLabel

\* Path::extension: the text after the last dot of the file name; none when
\* there is no dot, or when the only dot is the first character
Extension(name) ==
    LET dots == {i \in 1..Len(name) : name[i] = "."}
        last == CHOOSE i \in dots : \A j \in dots : j <= i
    IN  IF dots = {} \/ dots = {1} THEN None
        ELSE Some(SubSeq(name, last + 1, Len(name)))

AllowedExtensions ==
    { <<"j", "p", "g">>, <<"j", "p", "e", "g">>, <<"p", "n", "g">>,
      <<"w", "e", "b", "p">>, <<"h", "e", "i", "c">> }

allowed_extension(name) ==
    LET ext == Extension(name)
    IN  IF ext.some /\ ToLower(ext.val) \in AllowedExtensions
        THEN Some(ToLower(ext.val))
        ELSE None

\* the file name made from the clock's seconds, not its milliseconds
ReceiptFilenameOfSeconds(ms, ext) ==
    <<"receipt-">> \o ShowZ(ZOf(ms \div 1000)) \o <<".">> \o ext

\* format!("receipt-{}.{}", millis, ext)
ReceiptFilename(ms, ext) == <<"receipt-">> \o ShowZ(ZOf(ms)) \o <<".">> \o ext

\* persist_receipt without the test of the kind
persist_receipt_any_kind(receipt, category_name, kind, ms, fsOk) ==
    LET named == IF receipt.some /\ receipt.val.name.some
                 THEN allowed_extension(receipt.val.name.val)
                 ELSE None
        ext   == IF named.some THEN named.val ELSE <<"j", "p", "g">>
    IN  IF ~receipt.some THEN [status |-> "ok", filename |-> None]
        ELSE IF ~category_name.some THEN [status |-> "ok", filename |-> None]
        ELSE IF ~is_receipt_category(category_name.val)
             THEN [status |-> "ok", filename |-> None]
        ELSE IF ~fsOk THEN [status |-> "error", filename |-> None]
        ELSE [status |-> "ok", filename |-> Some(ReceiptFilename(ms, ext))]

\* receipt: the uploaded file, if any, as [name |-> the name it reports];
\* ms: the clock reading; fsOk: whether the directory and file writes succeed
persist_receipt(receipt, category_name, kind, ms, fsOk) ==
    LET named == IF receipt.some /\ receipt.val.name.some
                 THEN allowed_extension(receipt.val.name.val)
                 ELSE None
        ext   == IF named.some THEN named.val ELSE <<"j", "p", "g">>
    IN  IF ~receipt.some THEN [status |-> "ok", filename |-> None]
        ELSE IF ~category_name.some THEN [status |-> "ok", filename |-> None]
        ELSE IF kind # "expense" \/ ~is_receipt_category(category_name.val)
             THEN [status |-> "ok", filename |-> None]
        ELSE IF ~fsOk THEN [status |-> "error", filename |-> None]
        ELSE [status |-> "ok", filename |-> Some(ReceiptFilename(ms, ext))]

-----------------------------------------------------------------------------
(* Write statements: src/src/db.rs.  foreign_keys is switched on for the    *)
(* one pooled connection that ran the migrations; every other connection    *)
(* has the SQLite build's default, so a statement runs with enforcement     *)
(* (fk) or without it.                                                      *)

KindCheck(kind) == kind \in {"income", "expense"}

CategoryExists(cats, id) == \E i \in 1..Len(cats) : cats[i].id = id

insert_category(cats, name, kind) ==
    IF KindCheck(kind)
    THEN [ok |-> TRUE,
          rows |-> Append(cats, [id |-> Len(cats) + 1, name |-> name, kind |-> kind])]
    ELSE [ok |-> FALSE, rows |-> cats]

insert_transaction(cats, txs, kind, amount_cents, category_id, occurred_on, note, receipt_path, fk) ==
    IF /\ KindCheck(kind)
       /\ (fk /\ category_id.some => CategoryExists(cats, category_id.val))
    THEN [ok |-> TRUE,
          rows |-> Append(txs, [id           |-> Len(txs) + 1,
                                kind         |-> kind,
                                amount_cents |-> amount_cents,
                                category_id  |-> category_id,
                                occurred_on  |-> occurred_on,
                                note         |-> note,
                                receipt_path |-> receipt_path])]
    ELSE [ok |-> FALSE, rows |-> txs]

insert_budget(cats, buds, category_id, month, amount_cents, fk) ==
    IF fk => CategoryExists(cats, category_id)
    THEN [ok |-> TRUE,
          rows |-> Append(buds, [id           |-> Len(buds) + 1,
                                 category_id  |-> category_id,
                                 month        |-> month,
                                 amount_cents |-> amount_cents])]
    ELSE [ok |-> FALSE, rows |-> buds]

-----------------------------------------------------------------------------
(* Request inputs                                                           *)

Jan == <<"2", "0", "2", "4", "-", "0", "1">>

Feb == <<"2", "0", "2", "4", "-", "0", "2">>

Jan10 == Jan \o <<"-", "1", "0">>

Jan05 == Jan \o <<"-", "0", "5">>

Feb03 == Feb \o <<"-", "0", "3">>

AnyJanToSep == <<"2", "0", "2", "4", "-", "0", "_">>

\* the local date the clock shows: Local::now().date_naive()
Today == Feb03

\* today_ymd(): "%Y-%m-%d"
today_ymd == Today

\* current_month(): "%Y-%m"
current_month == SubSeq(Today, 1, 7)

Blank == <<" ">>

Food == <<"F", "o", "o", "d">>

UpperLabel == <<"ZHE", "KA", "HA">>

Upload(name) == Some([name |-> name])

CatForm(name, kind) == [name |-> name, kind |-> kind]

TxForm(kind, amount, category_id, occurred_on, receipt) ==
    [kind |-> kind, amount |-> amount, category_id |-> category_id,
     occurred_on |-> occurred_on, note |-> None, receipt |-> receipt]

BudgetForm(category_id, month, amount) ==
    [category_id |-> category_id, month |-> month, amount |-> amount]

\* forms submitted while every request is served without a fault
CategoryForms ==
    { CatForm(<<" ">> \o UpperLabel \o <<" ">>, "expense"),
      CatForm(Food, "expense") }

TransactionForms ==
    { TxForm("expense", <<"5">>, Some(1), Jan10, None),
      TxForm("income", <<"1", "0", "0">>, None, Jan05, None),
      TxForm("expense", <<"1", ".", "5">>, Some(1), Feb03,
             Upload(Some(<<"a", ".", "P", "N", "G">>))),
      TxForm("income", <<"5">>, Some(1), Jan, Upload(None)),
      TxForm("expense", <<"0", ".", "-", "5">>, None, Jan10, None),
      TxForm("other", <<"5">>, None, Jan10, Upload(Some(<<"a", ".", "e", "x", "e">>))) }

BudgetForms ==
    { BudgetForm(1, Jan, <<"1", "0">>),
      BudgetForm(2, Blank, <<"0">>),
      BudgetForm(9, Jan, <<"1", "0">>),
      BudgetForm(1, AnyJanToSep, <<"1", "0">>) }

\* forms submitted while requests may fail
FaultCategoryForms ==
    { CatForm(UpperLabel, "expense"),
      CatForm(ReceiptLabel, "income"),
      CatForm(Food, "expense"),
      CatForm(Blank, "expense"),
      CatForm(Food, "other") }

FaultTransactionForms ==
    { TxForm("expense", <<"5">>, Some(1), Jan10, Upload(Some(<<"a", ".", "p", "n", "g">>))),
      TxForm("expense", <<"5">>, Some(1), Blank, Upload(Some(<<"a">>))),
      TxForm("expense", <<"5">>, Some(1), Jan10, None),
      TxForm("income", <<"5">>, Some(1), Jan10, Upload(None)),
      TxForm("expense", <<"5">>, None, Jan10, Upload(Some(<<"a", ".", "p", "n", "g">>))),
      TxForm("expense", <<"5">>, Some(9), Jan10, Upload(Some(<<"a", ".", "p", "n", "g">>))),
      TxForm("other", <<"5">>, Some(1), Jan10, Upload(Some(<<"a", ".", "e", "x", "e">>))),
      TxForm("expense", <<"a">>, Some(1), Jan10, Upload(None)) }

FaultBudgetForms ==
    { BudgetForm(1, Jan, <<"1", "0">>),
      BudgetForm(9, Blank, <<"5">>),
      BudgetForm(1, Jan, <<"-", "1">>) }

\* month selectors handed to the queries
Months == { Jan, Feb, <<"2", "0", "2", "4">>, AnyJanToSep }

\* what a request meets: authed is the result of require_user, fk whether
\* its connection enforces foreign keys, failAt the step at which storage
\* or the file system fails, if any
Env(authed, fk, failAt) == [authed |-> authed, fk |-> fk, failAt |-> failAt]

CalmEnvs == {Env(TRUE, fk, "none") : fk \in BOOLEAN}

FaultEnvs(steps) ==
    {Env(FALSE, FALSE, "none")}
    \cup {Env(TRUE, fk, "none") : fk \in BOOLEAN}
    \cup {Env(TRUE, FALSE, failAt) : failAt \in steps}

\* month parameters of the page requests
MonthParams == { None, Some(<<" ">> \o Jan \o <<" ">>) }

-----------------------------------------------------------------------------
(* Write handlers: src/src/main.rs, each given as the outcome it computes   *)

NoPage == <<>>

\* what the caller gets back, with what it asked: failed names the query that
\* failed while a page was being built, page is what the template is given
Response(req, status) ==
    [req |-> req, status |-> status, hadFile |-> FALSE, kind |-> "", category_id |-> None,
     failed |-> "none", page |-> NoPage]

TxResponse(status, form) ==
    [req |-> "add_transaction", status |-> status, hadFile |-> form.receipt.some,
     kind |-> form.kind, category_id |-> form.category_id,
     failed |-> "none", page |-> NoPage]

PageResponse(req, out, failed) ==
    [req |-> req, status |-> out.status, hadFile |-> FALSE, kind |-> "", category_id |-> None,
     failed |-> IF out.status = "page" THEN failed ELSE "none", page |-> out.page]

add_transaction(cats, txs, fs, now, form, env, ms, checks) ==
    LET same(status) == [status |-> status, transactions |-> txs, files |-> fs, nowMs |-> now]
        amount   == parse_amount_to_cents(form.amount, checks)
        occurred == IF Trim(form.occurred_on) = <<>> THEN today_ymd ELSE form.occurred_on
        catName  == IF form.category_id.some
                    THEN category_name_by_id(cats, form.category_id.val)
                    ELSE None
        receipt  == persist_receipt(form.receipt, catName, form.kind, ms,
                                    env.failAt # "fs")
        written  == IF receipt.filename.some THEN fs \cup {receipt.filename.val} ELSE fs
        clock    == IF receipt.filename.some \/ receipt.status = "error" THEN ms ELSE now
        insert   == insert_transaction(cats, txs, form.kind, ZInt(amount.val),
                        form.category_id, occurred, form.note, receipt.filename, env.fk)
    IN  IF ~env.authed THEN same("login")
        ELSE IF amount.tag = "panic" THEN same("panic")
        ELSE IF amount.tag = "none" THEN same("bad_request")
        ELSE IF env.failAt = "lookup" THEN same("server_error")
        ELSE IF receipt.status = "error"
             THEN [status |-> "server_error", transactions |-> txs, files |-> fs,
                   nowMs |-> clock]
        ELSE IF env.failAt = "insert" \/ ~insert.ok
             THEN [status |-> "server_error", transactions |-> txs, files |-> written,
                   nowMs |-> clock]
        ELSE [status |-> "redirect", transactions |-> insert.rows, files |-> written,
              nowMs |-> clock]

add_category(cats, form, env) ==
    LET insert == insert_category(cats, Trim(form.name), form.kind)
    IN  IF ~env.authed THEN [status |-> "login", categories |-> cats]
        ELSE IF Trim(form.name) = <<>> THEN [status |-> "bad_request", categories |-> cats]
        ELSE IF env.failAt \in {"lookup", "insert"} \/ ~insert.ok
             THEN [status |-> "server_error", categories |-> cats]
        ELSE [status |-> "redirect", categories |-> insert.rows]

add_budget(cats, buds, form, env, checks) ==
    LET amount == parse_amount_to_cents(form.amount, checks)
        month  == IF Trim(form.month) = <<>> THEN current_month ELSE form.month
        insert == insert_budget(cats, buds, form.category_id, month, ZInt(amount.val),
                                env.fk)
    IN  IF ~env.authed THEN [status |-> "login", budgets |-> buds]
        ELSE IF amount.tag = "panic" THEN [status |-> "panic", budgets |-> buds]
        ELSE IF amount.tag = "none" THEN [status |-> "bad_request", budgets |-> buds]
        ELSE IF env.failAt \in {"lookup", "insert"} \/ ~insert.ok
             THEN [status |-> "server_error", budgets |-> buds]
        ELSE [status |-> "redirect", budgets |-> insert.rows]

RowCount == Len(categories) + Len(transactions) + Len(budgets)

MoneyIdle ==
    /\ overflowChecks = TRUE
    /\ flow = "none"
    /\ amountText = <<>>
    /\ cents = ZZero
    /\ parsed = Unset
    /\ shown = Unset
    /\ centsText = Unset
    /\ reparsed = Unset

StoreEmpty ==
    /\ categories = <<>>
    /\ transactions = <<>>
    /\ budgets = <<>>
    /\ files = {}
    /\ nowMs = 0
    /\ resp = Response("none", "none")

Workers == 1..MaxWorkers

Idle == [at |-> "idle"]

AuthEmpty ==
    /\ users = <<>>
    /\ sessions = {}
    /\ issued = 0
    /\ pc = [w \in Workers |-> Idle]

Init == MoneyIdle /\ StoreEmpty /\ AuthEmpty /\ ViewIdle

AddCategoryReq(forms, envs, cap) ==
    \E form \in forms, env \in envs :
        LET out == add_category(categories, form, env)
        IN  /\ RowCount < cap
            /\ categories' = out.categories
            /\ resp' = Response("add_category", out.status)
            /\ UNCHANGED <<transactions, budgets, files, nowMs>>
            /\ UNCHANGED <<moneyVars, authVars, viewVars>>

\* the clock is read only when a receipt is to be stored
ClockReadings(cats, now, form) ==
    LET catName == IF form.category_id.some
                   THEN category_name_by_id(cats, form.category_id.val)
                   ELSE None
    IN  IF persist_receipt(form.receipt, catName, form.kind, now, TRUE).filename.some
        THEN now..MaxMs
        ELSE {now}

AddTransactionReq(forms, envs, cap) ==
    \E form \in forms, env \in envs :
      \E ms \in ClockReadings(categories, nowMs, form) :
        LET out == add_transaction(categories, transactions, files, nowMs, form,
                                   env, ms, overflowChecks)
        IN  /\ RowCount < cap
            /\ transactions' = out.transactions
            /\ files' = out.files
            /\ nowMs' = out.nowMs
            /\ resp' = TxResponse(out.status, form)
            /\ UNCHANGED <<categories, budgets>>
            /\ UNCHANGED <<moneyVars, authVars, viewVars>>

AddBudgetReq(forms, envs, cap) ==
    \E form \in forms, env \in envs :
        LET out == add_budget(categories, budgets, form, env, overflowChecks)
        IN  /\ RowCount < cap
            /\ budgets' = out.budgets
            /\ resp' = Response("add_budget", out.status)
            /\ UNCHANGED <<categories, transactions, files, nowMs>>
            /\ UNCHANGED <<moneyVars, authVars, viewVars>>

AddCategory == AddCategoryReq(CategoryForms, CalmEnvs, MaxRows)

AddTransaction == AddTransactionReq(TransactionForms, CalmEnvs, MaxRows)

AddBudget == AddBudgetReq(BudgetForms, CalmEnvs, MaxRows)

Next == AddCategory \/ AddTransaction \/ AddBudget

Spec == Init /\ [][Next]_vars

-----------------------------------------------------------------------------
(* Page handlers: src/src/main.rs.  env.failAt names the query that fails   *)
(* while the page is built, if any.                                         *)

\* selected_month without the trim: the parameter is taken as it was sent
selected_month_untrimmed(month) ==
    IF month.some /\ month.val # <<>> THEN month.val ELSE current_month

selected_month(month) ==
    IF month.some /\ Trim(month.val) # <<>> THEN Trim(month.val) ELSE current_month

\* unwrap_or_default / unwrap_or: what a failed query is replaced by
OrElse(env, query, rows, default) == IF env.failAt = query THEN default ELSE rows

\* available_months with both month queries left unlimited
available_months_unlimited(txs, buds, env) ==
    LET a == OrElse(env, "list_months", list_months(txs, -1), <<>>)
        b == OrElse(env, "list_budget_months", list_budget_months(buds, -1), <<>>)
    IN  TextsDesc(Rows(a) \cup Rows(b) \cup {current_month})

available_months(txs, buds, env) ==
    LET a == OrElse(env, "list_months", list_months(txs, 24), <<>>)
        b == OrElse(env, "list_budget_months", list_budget_months(buds, 24), <<>>)
    IN  TextsDesc(Rows(a) \cup Rows(b) \cup {current_month})

transaction_view(record, checks) ==
    [id            |-> record.id,
     kind          |-> record.kind,
     amount        |-> format_money(ZOf(record.amount_cents), checks),
     occurred_on   |-> record.occurred_on,
     note          |-> record.note,
     category_name |-> record.category_name,
     receipt_url   |-> IF record.receipt_path.some
                       THEN Some(<<"/receipts/">> \o record.receipt_path.val)
                       ELSE None]

\* a row of list_budgets read into a BudgetRecord: the amounts are i64
BudgetRecord(row) ==
    [row EXCEPT !.amount_cents = ZOf(@), !.spent_cents = ZOf(@)]

\* a row of dashboard_budgets read into a DashboardBudget: the amounts are i64
DashboardBudget(row) ==
    [row EXCEPT !.budget_cents = ZOf(@), !.spent_cents = ZOf(@), !.remaining_cents = ZOf(@)]

\* budget - spent on i64
RemainingCents(budget, spent, checks) == Checked(ZSub(budget, spent), checks)

Panicked == [tag |-> "panic", text |-> <<>>]

budget_view(record, checks) ==
    LET remaining == RemainingCents(record.amount_cents, record.spent_cents, checks)
    IN  [id            |-> record.id,
         category_name |-> record.category_name,
         month         |-> record.month,
         amount        |-> format_money(record.amount_cents, checks),
         spent         |-> format_money(record.spent_cents, checks),
         remaining     |-> IF remaining.panic THEN Panicked
                           ELSE format_money(remaining.val, checks),
         percent       |-> percent(record.spent_cents, record.amount_cents)]

dashboard_budget_view(record, checks) ==
    [category_name |-> record.category_name,
     budget        |-> format_money(record.budget_cents, checks),
     spent         |-> format_money(record.spent_cents, checks),
     remaining     |-> format_money(record.remaining_cents, checks),
     percent       |-> percent(record.spent_cents, record.budget_cents)]

report_month_view(record, checks) ==
    [month   |-> record.month,
     income  |-> format_money(ZOf(record.income_cents), checks),
     expense |-> format_money(ZOf(record.expense_cents), checks),
     net     |-> format_money(ZOf(record.net_cents), checks)]

report_category_view(record, checks) ==
    [category_name |-> record.category_name,
     expense       |-> format_money(ZOf(record.expense_cents), checks)]

Redirected == [status |-> "login", page |-> NoPage]

dashboard(cats, txs, buds, month, env, checks) ==
    LET selected == selected_month(month)
        totals   == OrElse(env, "month_totals", month_totals(txs, selected), <<0, 0>>)
        list     == OrElse(env, "dashboard_budgets",
                           dashboard_budgets(cats, txs, buds, selected), <<>>)
    IN  IF ~env.authed THEN Redirected
        ELSE [status |-> "page",
              page   |-> [month   |-> selected,
                          months  |-> available_months(txs, buds, env),
                          income  |-> format_money(ZOf(totals[1]), checks),
                          expense |-> format_money(ZOf(totals[2]), checks),
                          net     |-> format_money(ZOf(totals[1] - totals[2]), checks),
                          budgets |-> [i \in 1..Len(list) |->
                                          dashboard_budget_view(DashboardBudget(list[i]),
                                                                checks)]]]

transactions_page(cats, txs, buds, month, env, checks) ==
    LET selected == selected_month(month)
        records  == OrElse(env, "list_transactions",
                           list_transactions(cats, txs, Some(selected)), <<>>)
    IN  IF ~env.authed THEN Redirected
        ELSE [status |-> "page",
              page   |-> [month        |-> selected,
                          months       |-> available_months(txs, buds, env),
                          today        |-> today_ymd,
                          transactions |-> [i \in 1..Len(records) |->
                                               transaction_view(records[i], checks)],
                          categories   |-> OrElse(env, "list_categories",
                                                  list_categories(cats), <<>>)]]

budgets_page(cats, txs, buds, month, env, checks) ==
    LET selected == selected_month(month)
        list     == OrElse(env, "list_budgets",
                           list_budgets(cats, txs, buds, selected), <<>>)
    IN  IF ~env.authed THEN Redirected
        ELSE [status |-> "page",
              page   |-> [month      |-> selected,
                          months     |-> available_months(txs, buds, env),
                          budgets    |-> [i \in 1..Len(list) |->
                                             budget_view(BudgetRecord(list[i]), checks)],
                          categories |-> OrElse(env, "list_categories",
                                                list_categories(cats), <<>>)]]

reports(cats, txs, buds, month, env, checks) ==
    LET selected == selected_month(month)
        months   == OrElse(env, "report_months", report_months(txs, 12), <<>>)
        list     == OrElse(env, "report_categories",
                           report_categories(cats, txs, selected), <<>>)
    IN  IF ~env.authed THEN Redirected
        ELSE [status |-> "page",
              page   |-> [month         |-> selected,
                          month_options |-> available_months(txs, buds, env),
                          months        |-> [i \in 1..Len(months) |->
                                                report_month_view(months[i], checks)],
                          categories    |-> [i \in 1..Len(list) |->
                                                report_category_view(list[i], checks)]]]

MonthQueries == {"list_months", "list_budget_months"}

\* what a page request meets: no session, or a session and at most one
\* failing query
PageEnvs(queries) ==
    {Env(FALSE, FALSE, "none")}
    \cup {Env(TRUE, FALSE, failAt) : failAt \in {"none"} \cup queries}

Dashboard ==
    \E month \in MonthParams,
       env \in PageEnvs({"month_totals", "dashboard_budgets"} \cup MonthQueries) :
        LET out == dashboard(categories, transactions, budgets, month, env, overflowChecks)
        IN  /\ resp' = PageResponse("dashboard", out, env.failAt)
            /\ UNCHANGED <<categories, transactions, budgets, files, nowMs>>
            /\ UNCHANGED <<moneyVars, authVars, viewVars>>

TransactionsPage ==
    \E month \in MonthParams,
       env \in PageEnvs({"list_transactions", "list_categories"}) :
        LET out == transactions_page(categories, transactions, budgets, month, env,
                                     overflowChecks)
        IN  /\ resp' = PageResponse("transactions", out, env.failAt)
            /\ UNCHANGED <<categories, transactions, budgets, files, nowMs>>
            /\ UNCHANGED <<moneyVars, authVars, viewVars>>

BudgetsPage ==
    \E month \in MonthParams,
       env \in PageEnvs({"list_budgets", "list_categories"}) :
        LET out == budgets_page(categories, transactions, budgets, month, env,
                                overflowChecks)
        IN  /\ resp' = PageResponse("budgets", out, env.failAt)
            /\ UNCHANGED <<categories, transactions, budgets, files, nowMs>>
            /\ UNCHANGED <<moneyVars, authVars, viewVars>>

Reports ==
    \E month \in MonthParams,
       env \in PageEnvs({"report_months", "report_categories"} \cup MonthQueries) :
        LET out == reports(categories, transactions, budgets, month, env, overflowChecks)
        IN  /\ resp' = PageResponse("reports", out, env.failAt)
            /\ UNCHANGED <<categories, transactions, budgets, files, nowMs>>
            /\ UNCHANGED <<moneyVars, authVars, viewVars>>

AddCategoryFaulty == AddCategoryReq(FaultCategoryForms, FaultEnvs({"insert"}), MaxFaultRows)

AddTransactionFaulty ==
    AddTransactionReq(FaultTransactionForms, FaultEnvs({"lookup", "fs", "insert"}),
                      MaxFaultRows)

AddBudgetFaulty == AddBudgetReq(FaultBudgetForms, FaultEnvs({"insert"}), MaxFaultRows)

NextRequests ==
    \/ AddCategoryFaulty
    \/ AddTransactionFaulty
    \/ AddBudgetFaulty
    \/ Dashboard
    \/ TransactionsPage
    \/ BudgetsPage
    \/ Reports

SpecRequests == Init /\ [][NextRequests]_vars

-----------------------------------------------------------------------------
(* Users and sessions: src/src/db.rs and the handlers of src/src/main.rs.   *)
(* Every statement is its own transaction, so the statements of one request *)
(* interleave with those of the requests served beside it.  created_at is   *)
(* the text of the local time, which SQLite orders as text.                 *)

MAX_SESSIONS == 5

\* the local zone's offset from UTC, in clock readings: the zone leaves
\* daylight saving time after reading 0
UtcOffset(ms) == IF ms = 0 THEN 1 ELSE 0

\* Local::now().to_rfc3339(): the local wall-clock time, then the offset
\* from UTC in force when the clock was read
to_rfc3339(ms) == ShowZ02(ZOf(ms + UtcOffset(ms))) \o <<"+">> \o ShowZ02(ZOf(UtcOffset(ms)))

\* SELECT EXISTS(SELECT 1 FROM users)
has_users(us) == us # <<>>

\* username is UNIQUE
insert_user(us, username, password_hash, created_at) ==
    IF \E i \in 1..Len(us) : us[i].username = username
    THEN [ok |-> FALSE, rows |-> us, id |-> 0]
    ELSE [ok |-> TRUE,
          rows |-> Append(us, [id |-> Len(us) + 1, username |-> username,
                               password_hash |-> password_hash,
                               created_at |-> created_at]),
          id |-> Len(us) + 1]

user_credentials(us, username) ==
    IF \E i \in 1..Len(us) : us[i].username = username
    THEN Some(CHOOSE u \in Rows(us) : u.username = username)
    ELSE None

\* argon2: a hash verifies exactly the password it was made from
hash_password(password) == [argon2 |-> password]

verify_password(hash, password) == hash = hash_password(password)

\* the rowid given to a new row: one more than the greatest in the table
NextRowId(rows) ==
    IF rows = {} THEN 1
    ELSE 1 + (CHOOSE n \in {r.id : r \in rows} : \A r \in rows : r.id <= n)

create_session(ss, user_id, token, created_at) ==
    ss \cup {[id |-> NextRowId(ss), user_id |-> user_id, token |-> token,
              created_at |-> created_at]}

user_by_session(us, ss, token) ==
    LET hits == {s \in ss : s.token = token /\ \E i \in 1..Len(us) : us[i].id = s.user_id}
    IN  IF hits = {} THEN None ELSE Some((CHOOSE s \in hits : TRUE).user_id)

delete_session(ss, token) == {s \in ss : s.token # token}

session_count(ss, user_id) == Cardinality({s \in ss : s.user_id = user_id})

delete_sessions_for_user(ss, user_id) == {s \in ss : s.user_id # user_id}

\* ORDER BY created_at DESC, id DESC
RECURSIVE NewestFirst(_)
NewestFirst(S) ==
    IF S = {} THEN <<>>
    ELSE LET first == CHOOSE x \in S : \A y \in S :
                          \/ y = x
                          \/ TextLess(y.created_at, x.created_at)
                          \/ (x.created_at = y.created_at /\ x.id > y.id)
         IN  <<first>> \o NewestFirst(S \ {first})

prune_sessions(ss, user_id, keep) ==
    LET own  == {s \in ss : s.user_id = user_id}
        kept == Rows(Limit(NewestFirst(own), keep))
    IN  ss \ (own \ kept)

GoodPassword == <<"s", "e", "c", "r", "e", "t">>

ShortPassword == <<"a">>

Alice == <<"a">>

SetupForm(username, password, confirm_password) ==
    [username |-> username, password |-> password, confirm_password |-> confirm_password]

LoginForm(username, password) == [username |-> username, password |-> password]

SetupForms ==
    { SetupForm(<<" ">> \o Alice, GoodPassword, GoodPassword),
      SetupForm(Blank, GoodPassword, GoodPassword),
      SetupForm(Alice, ShortPassword, ShortPassword),
      SetupForm(Alice, GoodPassword, ShortPassword) }

LoginForms ==
    { LoginForm(Alice \o <<" ">>, GoodPassword),
      LoginForm(Alice, ShortPassword),
      LoginForm(Food, GoodPassword),
      LoginForm(Blank, GoodPassword) }

\* a request between two of its statements
Serving(req, at, username, password, user_id, token, created_at) ==
    [at |-> at, req |-> req, username |-> username, password |-> password,
     user_id |-> user_id, token |-> token, created_at |-> created_at]

AuthDone(w, req, status) ==
    /\ pc' = [pc EXCEPT ![w] = Idle]
    /\ resp' = Response(req, status)

LedgerUnchanged == UNCHANGED <<moneyVars, viewVars, categories, transactions, budgets, files>>

\* setup_post up to the clock reading that precedes its first write
SetupBeginOf(w, forms) ==
    /\ pc[w] = Idle
    /\ \E form \in forms :
        LET username == Trim(form.username)
        IN  IF has_users(users)
            THEN AuthDone(w, "setup_post", "login") /\ UNCHANGED nowMs
            ELSE IF \/ username = <<>>
                    \/ ByteLen(form.password) < 6
                    \/ form.password # form.confirm_password
            THEN AuthDone(w, "setup_post", "form_error") /\ UNCHANGED nowMs
            ELSE \E ms \in nowMs..MaxMs :
                    /\ nowMs' = ms
                    /\ pc' = [pc EXCEPT ![w] = Serving("setup_post", "insert_user",
                                  username, form.password, 0, 0, to_rfc3339(ms))]
                    /\ UNCHANGED resp
    /\ UNCHANGED <<users, sessions, issued>>
    /\ LedgerUnchanged

SetupBegin(w) == SetupBeginOf(w, SetupForms)

\* setup_post: insert_user, then the token for the session
SetupInsertUser(w) ==
    /\ pc[w].at = "insert_user"
    /\ issued < MaxTokens
    /\ \E ok \in BOOLEAN :
        LET insert == insert_user(users, pc[w].username, hash_password(pc[w].password),
                                  pc[w].created_at)
        IN  IF ok /\ insert.ok
            THEN /\ users' = insert.rows
                 /\ issued' = issued + 1
                 /\ pc' = [pc EXCEPT ![w] = [@ EXCEPT !.at = "create_session",
                                                      !.user_id = insert.id,
                                                      !.token = issued + 1]]
                 /\ UNCHANGED resp
            ELSE /\ AuthDone(w, "setup_post", "form_error")
                 /\ UNCHANGED <<users, issued>>
    /\ UNCHANGED <<sessions, nowMs>>
    /\ LedgerUnchanged

\* login_post up to the clock reading that precedes its write
LoginBegin(w) ==
    /\ pc[w] = Idle
    /\ issued < MaxTokens
    /\ \E form \in LoginForms, ok \in BOOLEAN :
        LET username == Trim(form.username)
            creds    == user_credentials(users, username)
        IN  IF ~has_users(users)
            THEN AuthDone(w, "login_post", "setup") /\ UNCHANGED <<nowMs, issued>>
            ELSE IF \/ username = <<>>
                    \/ form.password = <<>>
                    \/ ~ok
                    \/ ~creds.some
                    \/ ~verify_password(creds.val.password_hash, form.password)
            THEN AuthDone(w, "login_post", "form_error") /\ UNCHANGED <<nowMs, issued>>
            ELSE \E ms \in nowMs..MaxMs :
                    /\ nowMs' = ms
                    /\ issued' = issued + 1
                    /\ pc' = [pc EXCEPT ![w] = Serving("login_post", "create_session",
                                  username, form.password, creds.val.id, issued + 1,
                                  to_rfc3339(ms))]
                    /\ UNCHANGED resp
    /\ UNCHANGED <<users, sessions>>
    /\ LedgerUnchanged

\* setup_post and login_post: create_session
CreateSession(w) ==
    /\ pc[w].at = "create_session"
    /\ \E ok \in BOOLEAN :
        IF ok
        THEN /\ sessions' = create_session(sessions, pc[w].user_id, pc[w].token,
                                           pc[w].created_at)
             /\ pc' = [pc EXCEPT ![w] = [@ EXCEPT !.at = "prune_sessions"]]
             /\ UNCHANGED resp
        ELSE /\ AuthDone(w, pc[w].req, "form_error")
             /\ UNCHANGED sessions
    /\ UNCHANGED <<users, issued, nowMs>>
    /\ LedgerUnchanged

\* setup_post and login_post: prune_sessions, then the cookie and the redirect
PruneSessions(w) ==
    /\ pc[w].at = "prune_sessions"
    /\ \E ok \in BOOLEAN :
        IF ok
        THEN /\ sessions' = prune_sessions(sessions, pc[w].user_id, MAX_SESSIONS)
             /\ AuthDone(w, pc[w].req, "redirect")
        ELSE /\ AuthDone(w, pc[w].req, "form_error")
             /\ UNCHANGED sessions
    /\ UNCHANGED <<users, issued, nowMs>>
    /\ LedgerUnchanged

\* the cookie a browser sends: the token of a session, or 0 for no cookie,
\* for a token whose session is gone, or for a delete that fails and is
\* ignored, all of which leave the table as it is
Cookies == {0} \cup {s.token : s \in sessions}

logout ==
    /\ \E token \in Cookies :
          sessions' = IF token # 0 THEN delete_session(sessions, token) ELSE sessions
    /\ resp' = Response("logout", "login")
    /\ UNCHANGED <<users, issued, pc, nowMs>>
    /\ LedgerUnchanged

settings_logout_all ==
    /\ \E token \in Cookies :
          LET user == IF token # 0 THEN user_by_session(users, sessions, token) ELSE None
          IN  sessions' = IF user.some
                          THEN delete_sessions_for_user(sessions, user.val)
                          ELSE sessions
    /\ resp' = Response("settings_logout_all", "login")
    /\ UNCHANGED <<users, issued, pc, nowMs>>
    /\ LedgerUnchanged

NextAuth ==
    \/ \E w \in Workers : SetupBegin(w)
    \/ \E w \in Workers : SetupInsertUser(w)
    \/ \E w \in Workers : LoginBegin(w)
    \/ \E w \in Workers : CreateSession(w)
    \/ \E w \in Workers : PruneSessions(w)
    \/ logout
    \/ settings_logout_all

SpecAuth == Init /\ [][NextAuth]_vars

-----------------------------------------------------------------------------
(* Properties of the ledger                                                 *)

\* the year-month an occurrence date falls in: its first seven characters
MonthOf(t) == SubSeq(t.occurred_on, 1, IF Len(t.occurred_on) < 7 THEN Len(t.occurred_on) ELSE 7)

RECURSIVE TotalAt(_, _)
TotalAt(txs, I) ==
    IF I = {} THEN 0
    ELSE LET i == CHOOSE j \in I : TRUE
         IN  txs[i].amount_cents + TotalAt(txs, I \ {i})

\* the sum of the amounts of one kind in one year-month
KindTotal(txs, kind, month) ==
    TotalAt(txs, {i \in 1..Len(txs) : txs[i].kind = kind /\ MonthOf(txs[i]) = month})

\* the sum of a category's expenses in one year-month
CategorySpent(txs, category_id, month) ==
    TotalAt(txs, {i \in 1..Len(txs) :
                    /\ txs[i].kind = "expense"
                    /\ MonthOf(txs[i]) = month
                    /\ txs[i].category_id = Some(category_id)})

ExampleExpense(t) == t.kind = "expense" /\ t.amount_cents = 500 /\ t.occurred_on = Jan10

ExampleIncome(t) == t.kind = "income" /\ t.amount_cents = 10000 /\ t.occurred_on = Jan05

\* the ledger holds the two transactions of the documented scenario, no other
ExampleLedger ==
    /\ Len(transactions) = 2
    /\ \E i, j \in 1..2 : ExampleExpense(transactions[i]) /\ ExampleIncome(transactions[j])

\* C1: every stored transaction amount and every stored budget amount is a
\* non-negative number of cents.
C1_AmountsNonNegative ==
    /\ \A t \in Rows(transactions) : t.amount_cents >= 0
    /\ \A b \in Rows(budgets) : b.amount_cents >= 0

\* C7: for every month selector, month_totals is the pair of the income sum
\* and the expense sum over exactly the transactions whose occurrence date
\* falls in that year-month, (0, 0) when there is none; in the documented
\* scenario month_totals("2024-01") = (10000, 500).
C7_MonthTotalsExact ==
    /\ \A m \in Months :
          month_totals(transactions, m) =
              <<KindTotal(transactions, "income", m), KindTotal(transactions, "expense", m)>>
    /\ ExampleLedger => month_totals(transactions, Jan) = <<10000, 500>>

\* C8: for every month selector, list_budgets has exactly one entry for
\* every stored budget row of that month and no other entry, and each
\* entry's spent_cents is the sum of the expense transactions of that month
\* in the budget's category (0 when there is none).
C8_BudgetsListedWithSpent ==
    \A m \in Months :
        LET listed == list_budgets(categories, transactions, budgets, m)
        IN  /\ \A b \in Rows(budgets) :
                  b.month = m =>
                      Cardinality({i \in 1..Len(listed) : listed[i].id = b.id}) = 1
            /\ \A i \in 1..Len(listed) :
                  /\ \E b \in Rows(budgets) :
                        /\ b.id = listed[i].id
                        /\ b.month = m
                        /\ listed[i].category_id = b.category_id
                        /\ listed[i].amount_cents = b.amount_cents
                  /\ listed[i].spent_cents =
                        CategorySpent(transactions, listed[i].category_id, m)

ObservedMonths == {MonthOf(t) : t \in Rows(transactions)}

\* C9: report_months(limit) has at most limit rows, one per distinct month
\* of the transaction history, the most recent months first in strictly
\* descending order, each with the per-kind sums of its month and
\* net = income - expense; in the documented scenario report_months(1) is
\* the single row {2024-01, 10000, 500, 9500}.
C9_ReportMonths ==
    /\ \A limit \in 0..MaxLimit :
          LET r == report_months(transactions, limit)
              listed == {r[i].month : i \in 1..Len(r)}
          IN  /\ Len(r) <= limit
              /\ Len(r) = limit \/ listed = ObservedMonths
              /\ listed \subseteq ObservedMonths
              /\ \A i \in 1..Len(r) - 1 : TextLess(r[i + 1].month, r[i].month)
              /\ \A m \in ObservedMonths \ listed, n \in listed : TextLess(m, n)
              /\ \A i \in 1..Len(r) :
                    /\ r[i].income_cents = KindTotal(transactions, "income", r[i].month)
                    /\ r[i].expense_cents = KindTotal(transactions, "expense", r[i].month)
                    /\ r[i].net_cents = r[i].income_cents - r[i].expense_cents
    /\ ExampleLedger =>
          report_months(transactions, 1) =
              <<[month |-> Jan, income_cents |-> 10000, expense_cents |-> 500,
                 net_cents |-> 9500]>>

\* the documented scenario, where a limit of one row hides nothing, and a
\* ledger of two months where it does
C9_Witness == ExampleLedger

C9_WitnessLimit ==
    /\ Cardinality(ObservedMonths) >= 2
    /\ Len(report_months(transactions, 1)) = 1
    /\ \E i, j \in 1..Len(transactions) :
          /\ i # j
          /\ MonthOf(transactions[i]) = MonthOf(transactions[j])
          /\ transactions[i].kind = transactions[j].kind

\* the category row with this id exists and its name, trimmed and compared
\* without regard to case, is the receipt label
ReceiptCategory(category_id) ==
    /\ category_id.some
    /\ \E c \in Rows(categories) :
          c.id = category_id.val /\ ToLower(Trim(c.name)) = ReceiptLabel

\* the request named by resp asked for a receipt to be kept
GateOpen == resp.hadFile /\ resp.kind = "expense" /\ ReceiptCategory(resp.category_id)

Served == resp.req = "add_transaction" /\ resp.status \in {"redirect", "server_error"}

LastTransaction == transactions[Len(transactions)]

StoredReceipts ==
    {t.receipt_path.val : t \in {u \in Rows(transactions) : u.receipt_path.some}}

C10_WitnessDropped ==
    /\ resp.req = "add_transaction"
    /\ resp.status = "redirect"
    /\ resp.hadFile
    /\ resp.kind = "income"
    /\ ReceiptCategory(resp.category_id)
    /\ ~LastTransaction.receipt_path.some
    /\ files = {}

-----------------------------------------------------------------------------
(* Properties of failing requests                                           *)

WriteRequests == {"add_transaction", "add_category", "add_budget"}

ReadRequests == {"dashboard", "transactions", "budgets", "reports"}

FailureStatuses == {"bad_request", "server_error", "panic"}

\* C4: a write request that ends in a failure response leaves the database
\* rows and the set of receipt files as they were before the request.
C4_FailedWriteLeavesNothing ==
    [][(resp'.req \in WriteRequests /\ resp'.status \in FailureStatuses)
          => UNCHANGED <<categories, transactions, budgets, files>>]_vars

\* C5: when a storage query fails while a page request is served, the
\* request fails; no page is rendered from the missing result.
C5_QueryFailurePropagates ==
    (resp.req \in ReadRequests /\ resp.failed # "none") => resp.status \in FailureStatuses

-----------------------------------------------------------------------------
(* Properties of the sessions                                               *)

SessionsOf(user_id) == {s \in sessions : s.user_id = user_id}

\* C3: in every reachable state of the store each user owns at most
\* MAX_SESSIONS session rows.
C3_AtMostMaxSessions ==
    \A i \in 1..Len(users) : Cardinality(SessionsOf(users[i].id)) <= MAX_SESSIONS

-----------------------------------------------------------------------------
(* The month selector on its own: selected_month applied to one ?month=     *)
(* parameter                                                                *)

MonthAlphabet == {" ", "2", "-", "a"}

May2023 == <<"2", "0", "2", "3", "-", "0", "5">>

MonthExamples ==
    { <<" ">> \o May2023 \o <<" ">>, May2023, Jan, AnyJanToSep,
      <<"2", "0", "2", "4">>, <<"\t", " ", "\n">>, <<"2", "0", "2", "4", "-", "1", "3">> }

MonthInputs ==
    {None} \cup {Some(t) : t \in StringsUpTo(MonthAlphabet, MaxLen) \cup MonthExamples}

TextResult(t) == [tag |-> "text", text |-> t]

InitMonth ==
    /\ MoneyIdle /\ StoreEmpty /\ AuthEmpty
    /\ viewIn \in MonthInputs
    /\ viewOut = Unset

SelectMonth ==
    /\ viewOut = Unset
    /\ viewIn \in MonthInputs
    /\ viewOut' = TextResult(selected_month(viewIn))
    /\ UNCHANGED <<viewIn, moneyVars, storeVars, authVars>>

NextMonth == SelectMonth

SpecMonth == InitMonth /\ [][NextMonth]_vars

\* the parameter is present and holds something other than whitespace
NonBlank(month) == month.some /\ \E i \in 1..Len(month.val) : ~IsWhitespace(month.val[i])

\* t is s without its leading and trailing whitespace
TrimmedOf(t, s) ==
    /\ t # <<>>
    /\ ~IsWhitespace(t[1]) /\ ~IsWhitespace(t[Len(t)])
    /\ \E i \in 1..Len(s) :
          /\ i + Len(t) - 1 <= Len(s)
          /\ SubSeq(s, i, i + Len(t) - 1) = t
          /\ \A k \in 1..Len(s) : (k < i \/ k > i + Len(t) - 1) => IsWhitespace(s[k])

\* YYYY-MM: four digits, a hyphen, a month number 01..12
CanonicalMonth(t) ==
    /\ Len(t) = 7
    /\ \A i \in {1, 2, 3, 4, 6, 7} : IsDigitChar(t[i])
    /\ t[5] = "-"
    /\ 10 * DigitVal(t[6]) + DigitVal(t[7]) \in 1..12

\* C11: selected_month returns the parameter without its surrounding
\* whitespace when the parameter is present and not blank (" 2023-05 " gives
\* "2023-05"), and the current local month, a YYYY-MM text, when the
\* parameter is absent, empty or all whitespace.
C11_SelectedMonth ==
    /\ selected_month(Some(<<" ">> \o May2023 \o <<" ">>)) = May2023
    /\ viewOut # Unset =>
          IF NonBlank(viewIn)
          THEN TrimmedOf(viewOut.text, viewIn.val)
          ELSE /\ viewOut.text = SubSeq(today_ymd, 1, 7)
               /\ CanonicalMonth(viewOut.text)

C11_Witness ==
    /\ viewOut # Unset /\ viewIn.some
    /\ Len(viewIn.val) > Len(viewOut.text)
    /\ viewOut.text = May2023

C11_WitnessBlank ==
    /\ viewOut # Unset /\ viewIn.some /\ viewIn.val # <<>>
    /\ viewOut.text = current_month

\* C12: whatever the ?month= parameter holds, and when it is absent, the
\* month the selector returns is a canonical YYYY-MM text, so that every
\* aggregation is scoped to exactly one calendar month.
C12_SelectedMonthCanonical ==
    viewOut # Unset => CanonicalMonth(viewOut.text)

-----------------------------------------------------------------------------
(* The month list on its own: available_months over stores that hold more   *)
(* months than the month queries return                                     *)

\* the k-th month counted from 2022-01; the clock's month, 2024-02, is the 26th
MonthText(k) ==
    LET m == ((k - 1) % 12) + 1
    IN  ShowZ(ZOf(2022 + (k - 1) \div 12)) \o <<"-", DigitChar(m \div 10), DigitChar(m % 10)>>

\* n consecutive months from the from-th, out of order and with one of them twice
GeneratedMonths(from, n) ==
    [i \in 1..(IF n = 0 THEN 0 ELSE n + 1) |-> MonthText(from + (i % n))]

RECURSIVE TransactionsOn(_)
TransactionsOn(months) ==
    IF months = <<>> THEN <<>>
    ELSE insert_transaction(<<>>, TransactionsOn(SubSeq(months, 1, Len(months) - 1)),
             "expense", 100, None, months[Len(months)] \o <<"-", "1", "5">>, None, None,
             FALSE).rows

RECURSIVE BudgetsFor(_)
BudgetsFor(months) ==
    IF months = <<>> THEN <<>>
    ELSE insert_budget(<<>>, BudgetsFor(SubSeq(months, 1, Len(months) - 1)), 1,
             months[Len(months)], 1000, FALSE).rows

InitMonths ==
    /\ MoneyIdle /\ AuthEmpty /\ ViewIdle
    /\ categories = <<>>
    /\ \E n \in 0..MaxMonths : transactions = TransactionsOn(GeneratedMonths(1, n))
    /\ \E from \in {1, 14}, n \in 0..MaxMonths : budgets = BudgetsFor(GeneratedMonths(from, n))
    /\ files = {}
    /\ nowMs = 0
    /\ resp = Response("none", "none")

ListMonths ==
    /\ viewOut = Unset
    /\ \E env \in CalmEnvs :
          viewOut' = [tag |-> "months", months |-> available_months(transactions, budgets, env)]
    /\ UNCHANGED <<viewIn, moneyVars, storeVars, authVars>>

NextMonths == ListMonths

SpecMonths == InitMonths /\ [][NextMonths]_vars

\* how many months each of the two month queries is asked for
ListedMonths == 24

\* the n greatest texts of S
MostRecent(S, n) == {m \in S : Cardinality({x \in S : TextLess(m, x)}) < n}

TransactionMonths == {SubSeq(t.occurred_on, 1, 7) : t \in Rows(transactions)}

BudgetMonths == {b.month : b \in Rows(budgets)}

\* C13: the month list always contains the current month, holds no month
\* twice, is in strictly descending order, and its members are exactly the
\* current month, the 24 most recent distinct year-months of the
\* transactions' dates and the 24 most recent distinct budget months.
C13_AvailableMonths ==
    viewOut # Unset =>
        LET months == viewOut.months
        IN  /\ \E i \in 1..Len(months) : months[i] = SubSeq(today_ymd, 1, 7)
            /\ \A i, j \in 1..Len(months) : i # j => months[i] # months[j]
            /\ \A i \in 1..Len(months) - 1 : TextLess(months[i + 1], months[i])
            /\ Rows(months) = {SubSeq(today_ymd, 1, 7)}
                                \cup MostRecent(TransactionMonths, ListedMonths)
                                \cup MostRecent(BudgetMonths, ListedMonths)

\* more than 24 transaction months and more than 24 budget months, the two
\* overlapping, and the oldest of each left out of the list
C13_Witness ==
    /\ viewOut # Unset
    /\ Cardinality(TransactionMonths) > ListedMonths
    /\ Cardinality(BudgetMonths) > ListedMonths
    /\ TransactionMonths \cap BudgetMonths # {}
    /\ Len(viewOut.months) < Cardinality(TransactionMonths \cup BudgetMonths)
    /\ Len(viewOut.months) > ListedMonths

-----------------------------------------------------------------------------
(* Properties of the category report                                        *)

\* the categories that have an expense in the year-month
SpendingCategories(month) ==
    {c \in Rows(categories) :
        \E t \in Rows(transactions) :
            t.kind = "expense" /\ MonthOf(t) = month /\ t.category_id = Some(c.id)}

\* C14: for every month selector, report_categories has one row for each
\* category with an expense in that year-month and no other row, the row's
\* expense_cents is the sum of that category's expenses of the year-month
\* (income and other months contribute nothing), the rows are ordered by
\* non-increasing expense_cents, and the list is empty when nothing matches.
C14_ReportCategories ==
    \A m \in Months :
        LET rows == report_categories(categories, transactions, m)
        IN  /\ \A c \in SpendingCategories(m) :
                  \E i \in 1..Len(rows) :
                      /\ rows[i].category_name = c.name
                      /\ rows[i].expense_cents = CategorySpent(transactions, c.id, m)
            /\ \A i \in 1..Len(rows) :
                  \E c \in SpendingCategories(m) :
                      /\ rows[i].category_name = c.name
                      /\ rows[i].expense_cents = CategorySpent(transactions, c.id, m)
            /\ Cardinality(SpendingCategories(m)) = Len(rows)
            /\ \A i \in 1..Len(rows) - 1 : rows[i].expense_cents >= rows[i + 1].expense_cents
            /\ SpendingCategories(m) = {} => rows = <<>>

-----------------------------------------------------------------------------
(* The budget views on their own: budget_view and dashboard_budget_view     *)
(* applied to one budget record                                             *)

\* 2^53 + 1, the least natural that is not an f64
FirstInexact == ZAdd(ZShl(ZOf(1), 53), ZOf(1))

PercentCents ==
    {ZOf(n) : n \in (-1..MaxCents) \cup {-5, 23, 29, 40, 200, 10000}}
    \cup {I64Max, I64Min, FirstInexact}

BudgetRecords == [amount_cents : PercentCents, spent_cents : PercentCents]

InitPercent ==
    /\ overflowChecks \in BOOLEAN
    /\ flow = "none" /\ amountText = <<>> /\ cents = ZZero
    /\ parsed = Unset /\ shown = Unset /\ centsText = Unset /\ reparsed = Unset
    /\ StoreEmpty /\ AuthEmpty
    /\ viewIn \in BudgetRecords
    /\ viewOut = Unset

BudgetView ==
    /\ viewOut = Unset
    /\ viewIn \in BudgetRecords
    /\ viewOut' = [tag  |-> "budget_view",
                   view |-> budget_view([id            |-> 1,
                                         category_id   |-> 1,
                                         category_name |-> Food,
                                         month         |-> Jan,
                                         amount_cents  |-> viewIn.amount_cents,
                                         spent_cents   |-> viewIn.spent_cents],
                                        overflowChecks)]
    /\ UNCHANGED <<viewIn, moneyVars, storeVars, authVars>>

\* dashboard_budgets computes remaining_cents when it reads the row
DashboardBudgetView ==
    /\ viewOut = Unset
    /\ viewIn \in BudgetRecords
    /\ LET remaining == RemainingCents(viewIn.amount_cents, viewIn.spent_cents,
                                       overflowChecks)
       IN  viewOut' =
             IF remaining.panic THEN [tag |-> "panic"]
             ELSE [tag  |-> "dashboard_budget_view",
                   view |-> dashboard_budget_view(
                                [category_name   |-> Food,
                                 budget_cents    |-> viewIn.amount_cents,
                                 spent_cents     |-> viewIn.spent_cents,
                                 remaining_cents |-> remaining.val],
                                overflowChecks)]
    /\ UNCHANGED <<viewIn, moneyVars, storeVars, authVars>>

NextPercent == BudgetView \/ DashboardBudgetView

SpecPercent == InitPercent /\ [][NextPercent]_vars

ZAbs(x) == MkZ(FALSE, x.mag)

\* p is an integer nearest to n / d: |n / d - p| <= 1/2
NearestInteger(p, n, d) ==
    LET h     == ZDivMod(ZAbs(n), ZAbs(d))
        twice == ZAdd(h.r, h.r)
    IN  /\ \/ ZAbs(p) = h.q /\ ZLeq(twice, ZAbs(d))
           \/ ZAbs(p) = ZAdd(h.q, ZOf(1)) /\ ZLeq(ZAbs(d), twice)
        /\ p # ZZero => p.neg = (n.neg # d.neg)

\* C15: for every budget record both budget views give percent = 0 when the
\* allocated amount is 0, whatever was spent and without failing, give
\* otherwise spent / allocated * 100 rounded to the nearest integer, and
\* show as remaining format_money(allocated - spent).
C15_PercentAndRemaining ==
    viewOut # Unset =>
        LET allocated == viewIn.amount_cents
            spent     == viewIn.spent_cents
        IN  /\ viewOut.tag # "panic"
            /\ allocated = ZZero => viewOut.view.percent = ZZero
            /\ allocated # ZZero =>
                   NearestInteger(viewOut.view.percent, ZMul100(spent), allocated)
            /\ InI64(ZSub(allocated, spent))
            /\ viewOut.view.remaining = format_money(ZSub(allocated, spent), overflowChecks)

\* the same for records whose amounts are exact as f64 and whose difference
\* is within i64
C15_PercentOfSmallAmounts ==
    (/\ viewOut # Unset
     /\ ZLess(ZAbs(viewIn.amount_cents), FirstInexact)
     /\ ZLess(ZAbs(viewIn.spent_cents), FirstInexact))
    => C15_PercentAndRemaining

-----------------------------------------------------------------------------
(* Properties of format_money                                               *)

\* the text the documentation gives for an amount of cents: "-" for a
\* negative amount, |cents| div 100, ".", |cents| mod 100 on two digits
MoneyText(c) ==
    LET frac == ZInt(ZRem100(ZAbs(c)))
    IN  (IF c.neg THEN <<"-">> ELSE <<>>)
            \o ShowZ(ZDiv100(ZAbs(c)))
            \o <<".", DigitChar(frac \div 10), DigitChar(frac % 10)>>

\* C16: for every 64-bit amount format_money returns, without crashing, a
\* sign "-" exactly when the amount is negative, then |cents| div 100, then
\* ".", then |cents| mod 100 padded to two digits; format_money(-150) is
\* "-1.50" and format_money(0) is "0.00".
C16_FormatMoneyTotal ==
    /\ format_money(ZOf(-150), overflowChecks).text = <<"-", "1", ".", "5", "0">>
    /\ format_money(ZOf(0), overflowChecks).text = <<"0", ".", "0", "0">>
    /\ centsText # Unset =>
          /\ centsText.tag = "text"
          /\ centsText.text = MoneyText(cents)

\* the same for every amount other than i64::MIN
C16_FormatMoneyAboveMin ==
    (centsText # Unset /\ cents # I64Min) =>
        centsText = [tag |-> "text", text |-> MoneyText(cents)]

-----------------------------------------------------------------------------
(* Properties of the dashboard's budget list                                *)

\* the budget rows of the month whose category exists
BudgetsShown(month) ==
    {b \in Rows(budgets) :
        b.month = month /\ category_name_by_id(categories, b.category_id).some}

\* C17: for every month, budget rows of the same category and month
\* included, the dashboard has one entry for each budget row that
\* list_budgets lists: the same number of entries, every entry's spent_cents
\* the sum of the category's expenses of the month counted once, and its
\* remaining_cents the budget less the spent amount.
C17_DashboardListsEachBudget ==
    \A m \in {Jan, Feb} :
        LET dash   == dashboard_budgets(categories, transactions, budgets, m)
            listed == list_budgets(categories, transactions, budgets, m)
        IN  /\ Len(dash) = Len(listed)
            /\ \A b \in BudgetsShown(m) :
                  Cardinality({i \in 1..Len(dash) :
                      /\ dash[i].category_name =
                             category_name_by_id(categories, b.category_id).val
                      /\ dash[i].budget_cents = b.amount_cents
                      /\ dash[i].spent_cents = CategorySpent(transactions, b.category_id, m)})
                  >= Cardinality({c \in BudgetsShown(m) :
                         c.category_id = b.category_id /\ c.amount_cents = b.amount_cents})
            /\ \A i \in 1..Len(dash) :
                  dash[i].remaining_cents = dash[i].budget_cents - dash[i].spent_cents

-----------------------------------------------------------------------------
(* Receipts stored by requests served side by side: add_transaction of      *)
(* src/src/main.rs, split where it awaits.  The receipts directory is the   *)
(* set of its file names: a write under a name already there replaces the   *)
(* file of that name.                                                       *)

UtilityBills == [id |-> 1, name |-> ReceiptLabel, kind |-> "expense"]

Groceries == [id |-> 2, name |-> Food, kind |-> "expense"]

UploadNames ==
    { Some(<<"a", ".", "P", "N", "G">>), Some(<<".", "p", "n", "g">>),
      Some(<<"a", ".", "e", "x", "e">>), None }

ReceiptForms ==
    {TxForm("expense", <<"5">>, Some(1), Jan10, Upload(name)) : name \in UploadNames}
    \cup {TxForm("expense", <<"5">>, Some(2), Jan10, Upload(Some(<<"a", ".", "P", "N", "G">>)))}

InitReceipts ==
    /\ MoneyIdle
    /\ AuthEmpty
    /\ ViewIdle
    /\ categories = <<UtilityBills, Groceries>>
    /\ transactions = <<>>
    /\ budgets = <<>>
    /\ files = {}
    /\ nowMs = 0
    /\ resp = Response("none", "none")

\* a request that has kept its receipt (at "insert_transaction") or has also
\* inserted its row, whose id it then holds (at "redirect")
Adding(at, form, amount_cents, ms, receipt_path, id) ==
    [at |-> at, req |-> "add_transaction", form |-> form, amount_cents |-> amount_cents,
     ms |-> ms, receipt_path |-> receipt_path, id |-> id]

InFlight == {w \in Workers : pc[w] # Idle}

\* add_transaction up to the end of persist_receipt
PersistReceipt(w) ==
    /\ pc[w] = Idle
    /\ RowCount + Cardinality(InFlight) < MaxRows
    /\ \E form \in ReceiptForms :
        \E ms \in ClockReadings(categories, nowMs, form) :
          LET amount  == parse_amount_to_cents(form.amount, overflowChecks)
              catName == category_name_by_id(categories, form.category_id.val)
              receipt == persist_receipt(form.receipt, catName, form.kind, ms, TRUE)
          IN  /\ files' = IF receipt.filename.some
                          THEN files \cup {receipt.filename.val}
                          ELSE files
              /\ nowMs' = ms
              /\ pc' = [pc EXCEPT ![w] = Adding("insert_transaction", form,
                                             ZInt(amount.val), ms, receipt.filename, 0)]
    /\ UNCHANGED <<categories, transactions, budgets, resp>>
    /\ UNCHANGED <<moneyVars, viewVars, users, sessions, issued>>

\* add_transaction: the insert that follows persist_receipt
InsertTransaction(w) ==
    /\ pc[w] # Idle
    /\ pc[w].at = "insert_transaction"
    /\ \E fk \in BOOLEAN :
        LET form   == pc[w].form
            insert == insert_transaction(categories, transactions, form.kind,
                          pc[w].amount_cents, form.category_id, form.occurred_on,
                          form.note, pc[w].receipt_path, fk)
        IN  /\ insert.ok
            /\ transactions' = insert.rows
            /\ pc' = [pc EXCEPT ![w] = [@ EXCEPT !.at = "redirect",
                                                 !.id = Len(insert.rows)]]
    /\ UNCHANGED <<categories, budgets, files, nowMs, resp>>
    /\ UNCHANGED <<moneyVars, viewVars, users, sessions, issued>>

\* add_transaction: Redirect::to("/transactions")
RedirectToTransactions(w) ==
    /\ pc[w] # Idle
    /\ pc[w].at = "redirect"
    /\ resp' = TxResponse("redirect", pc[w].form)
    /\ pc' = [pc EXCEPT ![w] = Idle]
    /\ UNCHANGED <<categories, transactions, budgets, files, nowMs>>
    /\ UNCHANGED <<moneyVars, viewVars, users, sessions, issued>>

NextReceipts ==
    \E w \in Workers : PersistReceipt(w) \/ InsertTransaction(w) \/ RedirectToTransactions(w)

SpecReceipts == InitReceipts /\ [][NextReceipts]_vars

RECURSIVE DecimalText(_)
DecimalText(n) ==
    IF n < 10 THEN <<DigitChar(n)>> ELSE Append(DecimalText(n \div 10), DigitChar(n % 10))

\* the extension a file name resolves to: the allow-listed extension the
\* name ends in, whatever its case, after a dot that is not its first
\* character; jpg when there is none or the upload has no name
ResolvedExtension(upload) ==
    LET name  == upload.val.name
        fits  == {ext \in AllowedExtensions :
                     /\ name.some
                     /\ Len(name.val) > Len(ext) + 1
                     /\ name.val[Len(name.val) - Len(ext)] = "."
                     /\ ToLower(SubSeq(name.val, Len(name.val) - Len(ext) + 1,
                                       Len(name.val))) = ext}
    IN  IF fits = {} THEN <<"j", "p", "g">> ELSE CHOOSE ext \in fits : TRUE

\* the requests that have kept a receipt and not yet answered
Accepted == {w \in InFlight : pc[w].receipt_path.some}

\* C18: a stored receipt is named "receipt-<ms>.<ext>", ms the millisecond
\* at which it was kept and ext the allow-listed extension of the upload's
\* name in lower case, or jpg; two uploads kept at different milliseconds
\* have different file names; two requests served side by side whose uploads
\* are kept at the same millisecond with the same extension have the same
\* file name, under which the directory holds one file, and the rows both
\* insert reference it.
C18_ReceiptFilenames ==
    /\ \A w \in Accepted :
          /\ pc[w].receipt_path.val =
                <<"receipt-">> \o DecimalText(pc[w].ms) \o <<".">>
                    \o ResolvedExtension(pc[w].form.receipt)
          /\ pc[w].receipt_path.val \in files
          /\ pc[w].at = "redirect" =>
                transactions[pc[w].id].receipt_path = pc[w].receipt_path
    /\ \A v, w \in Accepted :
          /\ pc[v].ms # pc[w].ms => pc[v].receipt_path # pc[w].receipt_path
          /\ (/\ pc[v].ms = pc[w].ms
              /\ ResolvedExtension(pc[v].form.receipt) = ResolvedExtension(pc[w].form.receipt))
             => pc[v].receipt_path = pc[w].receipt_path
    /\ \A t \in Rows(transactions) : t.receipt_path.some => t.receipt_path.val \in files
    /\ Cardinality(files) = Cardinality(StoredReceipts \cup {pc[w].receipt_path.val : w \in Accepted})

\* two requests served side by side kept uploads of different names at the
\* same millisecond: one file is left, and both inserted rows reference it
C18_Witness ==
    /\ Accepted = {1, 2}
    /\ pc[1].at = "redirect" /\ pc[2].at = "redirect"
    /\ pc[1].ms = pc[2].ms
    /\ pc[1].form.receipt # pc[2].form.receipt
    /\ pc[1].id # pc[2].id
    /\ transactions[pc[1].id].receipt_path = transactions[pc[2].id].receipt_path
    /\ Cardinality(files) = 1

\* two uploads kept at different milliseconds, both rows inserted
C18_WitnessApart ==
    /\ Accepted = {1, 2}
    /\ pc[1].at = "redirect" /\ pc[2].at = "redirect"
    /\ pc[1].ms # pc[2].ms
    /\ Cardinality(files) = 2

-----------------------------------------------------------------------------
(* Properties of the session a request has just created                     *)

\* worker w's request ends here with its cookie set
CookieSet(w) ==
    /\ pc[w].at = "prune_sessions"
    /\ pc'[w] = Idle
    /\ resp'.status = "redirect"

\* C19: when login_post or setup_post ends with its cookie set, its own
\* prune_sessions has not deleted the session it created: the token still
\* resolves to the user, whatever the created_at texts of the user's other
\* sessions are.
C19_IssuedTokenResolves ==
    [][\A w \in Workers :
          (CookieSet(w) /\ user_by_session(users, sessions, pc[w].token) = Some(pc[w].user_id))
          => user_by_session(users', sessions', pc[w].token) = Some(pc[w].user_id)]_vars

\* the same, for a session that no other session of the user follows: none
\* has a greater created_at text and none was inserted after it
C19_ResolvesWhenLatest ==
    [][\A w \in Workers :
          (/\ CookieSet(w)
           /\ user_by_session(users, sessions, pc[w].token) = Some(pc[w].user_id)
           /\ \A s, t \in SessionsOf(pc[w].user_id) :
                  t.token = pc[w].token
                  => ~TextLess(t.created_at, s.created_at) /\ s.id <= t.id)
          => user_by_session(users', sessions', pc[w].token) = Some(pc[w].user_id)]_vars

-----------------------------------------------------------------------------
(* First-run setup on its own: setup_post requests served side by side      *)

FirstRunForms ==
    { SetupForm(Alice, GoodPassword, GoodPassword),
      SetupForm(Food, GoodPassword, GoodPassword),
      SetupForm(Blank, GoodPassword, GoodPassword) }

SetupBeginFirstRun(w) == SetupBeginOf(w, FirstRunForms)

NextSetup ==
    \/ \E w \in Workers : SetupBeginFirstRun(w)
    \/ \E w \in Workers : SetupInsertUser(w)
    \/ \E w \in Workers : CreateSession(w)
    \/ \E w \in Workers : PruneSessions(w)

SpecSetup == Init /\ [][NextSetup]_vars

\* a setup_post that arrives when a user exists is answered with the
\* redirect to /login, and no request is left on its way to insert_user
FurtherSetupRedirects ==
    /\ \A w \in Workers : (has_users(users) /\ pc[w] = Idle) => pc'[w] = Idle
    /\ (has_users(users) /\ pc' = pc /\ resp' # resp)
       => resp' = Response("setup_post", "login") /\ users' = users

\* C20: however setup_post requests with distinct usernames interleave, at
\* most one row of users is ever created, and a setup_post that arrives
\* once a user exists creates nothing and redirects to /login.
C20_SetupCreatesOneUser == [][Len(users') <= 1 /\ FurtherSetupRedirects]_vars

\* the part that concerns the requests arriving once a user exists
C20_FurtherSetupRedirects == [][FurtherSetupRedirects]_vars

\* no more rows are created than requests are served side by side
C20_OneUserPerWorker == Len(users) <= MaxWorkers

-----------------------------------------------------------------------------
(* Properties relating the month aggregations to one another                *)

\* the expense_cents of the rows of report_categories, added up
ReportedExpense(month) ==
    LET rows == report_categories(categories, transactions, month)
    IN  SumSeq([i \in 1..Len(rows) |-> rows[i].expense_cents])

TotalsAgree ==
    \A limit \in 0..MaxLimit :
        LET r == report_months(transactions, limit)
        IN  \A i \in 1..Len(r) :
                month_totals(transactions, r[i].month) =
                    <<r[i].income_cents, r[i].expense_cents>>

CategoriesWithinTotal ==
    \A m \in Months : ReportedExpense(m) <= month_totals(transactions, m)[2]

\* C21: in every state of the store reached through add_transaction, for
\* every row r of report_months, month_totals(r.month) is the pair
\* (r.income_cents, r.expense_cents); and for every month selector the
\* expense_cents of report_categories add up to no more than the expense
\* total of month_totals.
C21_MonthAggregationsAgree == TotalsAgree /\ CategoriesWithinTotal

\* an occurrence date with a year-month of seven characters, none of them a
\* LIKE wildcard, followed by a hyphen
Dated(t) ==
    /\ Len(t.occurred_on) > 7
    /\ t.occurred_on[8] = "-"
    /\ \A i \in 1..7 : t.occurred_on[i] \notin {"%", "_"}

\* the first part, for a ledger whose occurrence dates all have that shape
C21_TotalsAgreeWhenDated == (\A t \in Rows(transactions) : Dated(t)) => TotalsAgree

\* the second part, for a ledger without a negative amount
C21_CategoriesWithinTotalWhenNonNegative ==
    (\A t \in Rows(transactions) : t.amount_cents >= 0) => CategoriesWithinTotal

=============================================================================
